---- MODULE Spec2Model ----
(***************************************************************************)
(* A model of the layout recommendation core of mcp-extendicare-ppt:       *)
(* SmartLayoutSelector (src/smart_layout_selector.py), i.e. the content    *)
(* analyzer, the scoring engine, the rationale generator and the ranker.   *)
(* Further specifications model the callers of one selector running its    *)
(* methods concurrently, the load of the catalog with the server that      *)
(* depends on it (src/quickstart_server_v2.py), and the placeholder        *)
(* summary.                                                                *)
(*                                                                         *)
(* Python values are tagged records: Str, List, Dict (an ordered sequence   *)
(* of <<key, value>> pairs, as dict iteration is in insertion order), Int  *)
(* and None.  Python str is a TLA+ string; substring tests, lower(),       *)
(* split() and the data point regex are computed character by character.   *)
(* Scores are Python floats that are only ever sums of 1.0, 2.0, 3.0 and   *)
(* -1.0, so they are modelled by integers.                                 *)
(***************************************************************************)
EXTENDS Integers, Sequences, FiniteSets, TLC

\* layouts:  self.layouts of the selector
\* call, ret: the call in progress of a caller that calls one at a time, and
\*            what it returned or raised
\* selector: whether the SmartLayoutSelector exists ("unconstructed",
\*            "constructed"), or "none" for the smart_selector = None of a
\*            server whose selector failed to load
\* threads:  the frame of each of the concurrent callers
VARIABLES layouts, call, ret, selector, threads

vars == <<layouts, call, ret, selector, threads>>

(***************************************************************************)
(* Bounds of the model.                                                    *)
(***************************************************************************)
MaxEntries == 2
MaxTopN == 3
MaxWords == 101
MaxDataPoints == 6
MaxPerType == 2

(***************************************************************************)
(* Python values.                                                          *)
(***************************************************************************)
Str(s) == [t |-> "str", v |-> s]
List(xs) == [t |-> "list", v |-> xs]
Dict(ps) == [t |-> "dict", v |-> ps]
PyInt(n) == [t |-> "int", v |-> n]
None == [t |-> "none"]

IsStr(x) == x.t = "str"
IsList(x) == x.t = "list"
IsDict(x) == x.t = "dict"

\* dict.keys() and dict.values(), in insertion order
Keys(d) == [i \in 1..Len(d.v) |-> d.v[i][1]]
Values(d) == [i \in 1..Len(d.v) |-> d.v[i][2]]

(***************************************************************************)
(* Python str operations.                                                  *)
(***************************************************************************)
Char(s, i) == SubSeq(s, i, i)

UpperAlpha == "ABCDEFGHIJKLMNOPQRSTUVWXYZ"
LowerAlpha == "abcdefghijklmnopqrstuvwxyz"
Digits == {"0", "1", "2", "3", "4", "5", "6", "7", "8", "9"}
\* the ASCII characters str.split() without argument splits on (\v is not
\* writable in a TLA+ string)
WhiteSpace == {" ", "\t", "\n", "\r", "\f"}

IsDigit(c) == c \in Digits
IsSpace(c) == c \in WhiteSpace

\* the lower case letter of each upper case letter
ToLower == [c \in {Char(UpperAlpha, i) : i \in 1..Len(UpperAlpha)} |->
                Char(LowerAlpha, CHOOSE i \in 1..Len(UpperAlpha) : Char(UpperAlpha, i) = c)]

LowerChar(c) == IF c \in DOMAIN ToLower THEN ToLower[c] ELSE c

\* the characters i..j of s, each replaced by its lower case letter (the range
\* is halved at each step, which keeps the evaluation shallow)
RECURSIVE LowerRange(_, _, _)
LowerRange(s, i, j) ==
    IF i > j THEN ""
    ELSE IF i = j THEN LowerChar(Char(s, i))
    ELSE LowerRange(s, i, (i + j) \div 2) \o LowerRange(s, (i + j) \div 2 + 1, j)

\* str.lower()
Lower(s) == LowerRange(s, 1, Len(s))

\* k in s, for two str
Contains(s, k) ==
    \E i \in 1..(Len(s) - Len(k) + 1) : SubSeq(s, i, i + Len(k) - 1) = k

\* s.startswith(prefix)
StartsWith(s, prefix) == Len(s) >= Len(prefix) /\ SubSeq(s, 1, Len(prefix)) = prefix

\* s.strip()
Strip(s) ==
    LET inked == {i \in 1..Len(s) : ~IsSpace(Char(s, i))}
    IN  IF inked = {} THEN ""
        ELSE SubSeq(s, CHOOSE i \in inked : \A j \in inked : i <= j,
                       CHOOSE i \in inked : \A j \in inked : j <= i)

\* s[start - 1:].split(sep), for a separator of one character
RECURSIVE SplitFrom(_, _, _)
SplitFrom(s, sep, start) ==
    LET seps == {i \in start..Len(s) : Char(s, i) = sep}
    IN  IF seps = {} THEN <<SubSeq(s, start, Len(s))>>
        ELSE LET p == CHOOSE i \in seps : \A j \in seps : i <= j
             IN  <<SubSeq(s, start, p - 1)>> \o SplitFrom(s, sep, p + 1)

\* s.split(sep)
Split(s, sep) == SplitFrom(s, sep, 1)

\* any(keyword in text for keyword in keywords)
AnyIn(keywords, text) ==
    \E i \in 1..Len(keywords) : Contains(text, keywords[i])

\* sep.join(parts)
RECURSIVE Join(_, _)
Join(parts, sep) ==
    IF Len(parts) = 0 THEN ""
    ELSE IF Len(parts) = 1 THEN parts[1]
    ELSE parts[1] \o sep \o Join(Tail(parts), sep)

\* str.split() yields the maximal runs of non-whitespace characters: one word
\* starts at each non-whitespace character that follows whitespace or nothing
WordStarts(s) ==
    {i \in 1..Len(s) : ~IsSpace(Char(s, i)) /\ (i = 1 \/ IsSpace(Char(s, i - 1)))}

\* len(s.split())
SplitLen(s) == Cardinality(WordStarts(s))

\* len(text.split('.')): one more than the number of '.' characters
SplitDotLen(s) == Cardinality({i \in 1..Len(s) : Char(s, i) = "."}) + 1

\* str.replace(' ', '_')
RECURSIVE ReplaceSpaceRange(_, _, _)
ReplaceSpaceRange(s, i, j) ==
    IF i > j THEN ""
    ELSE IF i = j THEN (IF Char(s, i) = " " THEN "_" ELSE Char(s, i))
    ELSE ReplaceSpaceRange(s, i, (i + j) \div 2)
         \o ReplaceSpaceRange(s, (i + j) \div 2 + 1, j)

ReplaceSpace(s) == ReplaceSpaceRange(s, 1, Len(s))

\* str(x) and repr(x) of the modelled values (the strings of the model hold no
\* quote, backslash or control character, so repr only adds the quotes)
RECURSIVE PyStr(_), PyRepr(_), ReprItems(_), ReprPairs(_)
PyStr(x) ==
    CASE x.t = "str" -> x.v
      [] x.t = "int" -> ToString(x.v)
      [] x.t = "none" -> "None"
      [] x.t = "list" -> "[" \o Join(ReprItems(x.v), ", ") \o "]"
      [] x.t = "dict" -> "{" \o Join(ReprPairs(x.v), ", ") \o "}"

PyRepr(x) == IF x.t = "str" THEN "'" \o x.v \o "'" ELSE PyStr(x)

ReprItems(xs) == [i \in 1..Len(xs) |-> PyRepr(xs[i])]

ReprPairs(ps) == [i \in 1..Len(ps) |-> "'" \o ps[i][1] \o "': " \o PyRepr(ps[i][2])]

StrItems(xs) == [i \in 1..Len(xs) |-> PyStr(xs[i])]

(***************************************************************************)
(* SmartLayoutSelector.analyze_content and its helpers.                    *)
(***************************************************************************)
ChartKeywords == <<"chart", "graph", "revenue", "growth", "trend", "data", "metric", "kpi">>
TableKeywords == <<"table", "comparison", "vs", "versus", "compare">>
ImageKeywords == <<"image", "photo", "picture", "visual", "diagram">>
ComparisonKeys == {"left", "right", "before", "after", "vs"}
ComparisonWords == <<"versus", "compared to", "vs", "while">>
ListWords == <<"first", "second", "third", "finally">>
metric_keywords ==
    <<"revenue", "profit", "ebitda", "growth", "margin", "roi", "kpi",
      "cost", "efficiency", "utilization", "occupancy", "satisfaction">>

\* the loop over content.items() that builds all_text
RECURSIVE ItemsText(_)
ItemsText(ps) ==
    IF Len(ps) = 0 THEN ""
    ELSE LET value == ps[1][2]
         IN  (IF IsStr(value) THEN value.v \o " "
              ELSE IF IsList(value) THEN Join(StrItems(value.v), " ") \o " "
              ELSE "")
             \o ItemsText(Tail(ps))

\* all_text, were a content that is neither dict nor str turned into text
ExtractTextOfAnything(content) ==
    IF IsDict(content) THEN ItemsText(content.v)
    ELSE PyStr(content)

\* all_text
ExtractText(content) ==
    IF IsDict(content) THEN ItemsText(content.v)
    ELSE IF IsStr(content) THEN content.v
    ELSE ""

\* text_density, were both boundaries compared with <=
TextDensityInclusive(word_count) ==
    IF word_count <= 20 THEN "low"
    ELSE IF word_count <= 100 THEN "medium"
    ELSE "high"

TextDensity(word_count) ==
    IF word_count < 20 THEN "low"
    ELSE IF word_count < 100 THEN "medium"
    ELSE "high"

\* structure, were the list values looked for before the comparison keys
AnalyzeStructureListFirst(content, text) ==
    LET low == Lower(text) IN
    IF IsDict(content) /\ \E i \in 1..Len(content.v) : IsList(Values(content)[i])
    THEN "list"
    ELSE IF IsDict(content) /\ \E i \in 1..Len(content.v) : Keys(content)[i] \in ComparisonKeys
    THEN "comparison"
    ELSE IF AnyIn(ComparisonWords, low) THEN "comparison"
    ELSE IF AnyIn(ListWords, low) THEN "list"
    ELSE IF SplitDotLen(text) > 3 THEN "narrative"
    ELSE "single_topic"

\* structure, were one segment enough for a narrative
AnalyzeStructureAnySegment(content, text) ==
    LET low == Lower(text) IN
    IF IsDict(content) /\ \E i \in 1..Len(content.v) : Keys(content)[i] \in ComparisonKeys
    THEN "comparison"
    ELSE IF IsDict(content) /\ \E i \in 1..Len(content.v) : IsList(Values(content)[i])
    THEN "list"
    ELSE IF AnyIn(ComparisonWords, low) THEN "comparison"
    ELSE IF AnyIn(ListWords, low) THEN "list"
    ELSE IF SplitDotLen(text) >= 1 THEN "narrative"
    ELSE "single_topic"

_analyze_structure(content, text) ==
    LET low == Lower(text) IN
    IF IsDict(content) /\ \E i \in 1..Len(content.v) : Keys(content)[i] \in ComparisonKeys
    THEN "comparison"
    ELSE IF IsDict(content) /\ \E i \in 1..Len(content.v) : IsList(Values(content)[i])
    THEN "list"
    ELSE IF AnyIn(ComparisonWords, low) THEN "comparison"
    ELSE IF AnyIn(ListWords, low) THEN "list"
    ELSE IF SplitDotLen(text) > 3 THEN "narrative"
    ELSE "single_topic"

\* the end (exclusive) of the run of digits that starts at i
DigitsEnd(s, i) ==
    CHOOSE j \in i..(Len(s) + 1) :
        /\ \A k \in i..(j - 1) : IsDigit(Char(s, k))
        /\ (j > Len(s) \/ ~IsDigit(Char(s, j)))

\* where a match of the pattern can start: a digit, or a $ before a digit
MatchStarts(s) ==
    {i \in 1..Len(s) :
        \/ IsDigit(Char(s, i))
        \/ Char(s, i) = "$" /\ i < Len(s) /\ IsDigit(Char(s, i + 1))}

\* re.findall(r'\d+\.?\d*%?|\$\d+', text) scanning from position i: the number
\* of leftmost, non-overlapping matches
RECURSIVE FindAllFrom(_, _)
FindAllFrom(s, i) ==
    LET starts == {j \in MatchStarts(s) : j >= i}
    IN  IF starts = {} THEN 0
        ELSE LET m == CHOOSE j \in starts : \A k \in starts : j <= k
             IN  IF IsDigit(Char(s, m))
                 THEN LET a == DigitsEnd(s, m)
                          b == IF a <= Len(s) /\ Char(s, a) = "." THEN a + 1 ELSE a
                          c == DigitsEnd(s, b)
                          d == IF c <= Len(s) /\ Char(s, c) = "%" THEN c + 1 ELSE c
                      IN  1 + FindAllFrom(s, d)
                 ELSE 1 + FindAllFrom(s, DigitsEnd(s, m + 1))

_count_data_points(text) == FindAllFrom(text, 1)

\* key_metrics, were the keywords looked for in the text as written
ExtractMetricsCaseSensitive(text) ==
    SelectSeq(metric_keywords, LAMBDA keyword : Contains(text, keyword))

_extract_metrics(text) ==
    LET low == Lower(text)
    IN  SelectSeq(metric_keywords, LAMBDA keyword : Contains(low, keyword))

\* content_type, were the charts tested before the charts and tables together
DetermineContentTypeChartsFirst(has_charts, has_tables, text_density, structure) ==
    IF has_charts THEN "data_visualization"
    ELSE IF has_charts /\ has_tables THEN "dashboard"
    ELSE IF has_tables THEN "data_table"
    ELSE IF text_density = "high" THEN "narrative"
    ELSE IF structure = "comparison" THEN "comparison"
    ELSE IF structure = "list" THEN "bullet_points"
    ELSE "general_content"

\* content_type, were the structure tested before the tables
DetermineContentTypeStructureFirst(has_charts, has_tables, text_density, structure) ==
    IF has_charts /\ has_tables THEN "dashboard"
    ELSE IF has_charts THEN "data_visualization"
    ELSE IF text_density = "high" THEN "narrative"
    ELSE IF structure = "comparison" THEN "comparison"
    ELSE IF has_tables THEN "data_table"
    ELSE IF structure = "list" THEN "bullet_points"
    ELSE "general_content"

_determine_content_type(has_charts, has_tables, text_density, structure) ==
    IF has_charts /\ has_tables THEN "dashboard"
    ELSE IF has_charts THEN "data_visualization"
    ELSE IF has_tables THEN "data_table"
    ELSE IF text_density = "high" THEN "narrative"
    ELSE IF structure = "comparison" THEN "comparison"
    ELSE IF structure = "list" THEN "bullet_points"
    ELSE "general_content"

\* the ContentAnalysis built from all_text
AnalyzeText(content, all_text) ==
    LET low == Lower(all_text)
        has_charts == AnyIn(ChartKeywords, low)
        has_tables == AnyIn(TableKeywords, low)
        has_images == AnyIn(ImageKeywords, low)
        text_density == TextDensity(SplitLen(all_text))
        structure == _analyze_structure(content, all_text)
    IN  [content_type |-> _determine_content_type(has_charts, has_tables, text_density, structure),
         has_charts |-> has_charts,
         has_tables |-> has_tables,
         has_images |-> has_images,
         text_density |-> text_density,
         structure |-> structure,
         data_points |-> _count_data_points(all_text),
         key_metrics |-> _extract_metrics(all_text)]

analyze_content(content) == AnalyzeText(content, ExtractText(content))

(***************************************************************************)
(* Layout descriptors are the JSON objects of the metadata document:       *)
(* functions from field names to values, any field possibly absent.        *)
(***************************************************************************)
\* dict.get(key, default)
Get(d, key, default) == IF key \in DOMAIN d THEN d[key] ELSE default

\* sum(1 for p in placeholders.values() if p.get('type') in types); the None of
\* an absent type is modelled by "", which is in no list of types
CountOfType(placeholders, types) ==
    Cardinality({k \in DOMAIN placeholders : Get(placeholders[k], "type", "") \in types})

\* [case.replace(' ', '_') for case in use_cases]
NormalizedUseCases(use_cases) == {ReplaceSpace(use_cases[i]) : i \in 1..Len(use_cases)}

\* the category term, were the two categories tested against the wrong types
CategoryScoreSwapped(analysis, layout_info) ==
    LET category == Get(layout_info, "category", "")
    IN  IF analysis.content_type = "data_visualization" /\ category = "content" THEN 3
        ELSE IF analysis.content_type = "narrative" /\ category = "data_visualization" THEN 3
        ELSE IF analysis.content_type = "dashboard"
                /\ Contains(Get(layout_info, "subcategory", ""), "dashboard") THEN 3
        ELSE 0

CategoryScore(analysis, layout_info) ==
    LET category == Get(layout_info, "category", "")
    IN  IF analysis.content_type = "data_visualization" /\ category = "data_visualization" THEN 3
        ELSE IF analysis.content_type = "narrative" /\ category = "content" THEN 3
        ELSE IF analysis.content_type = "dashboard"
                /\ Contains(Get(layout_info, "subcategory", ""), "dashboard") THEN 3
        ELSE 0

StructureScore(analysis, layout_info) ==
    LET structure == Get(layout_info, "structure", "")
    IN  IF analysis.structure = "comparison" /\ Contains(structure, "two_column") THEN 2
        ELSE IF analysis.structure = "single_topic" /\ Contains(structure, "single_column") THEN 2
        ELSE 0

\* the chart bonuses, were the second an elif of the first
HasChartsScoreElif(analysis, chart_placeholders) ==
    IF chart_placeholders > 0 THEN 2
    ELSE IF analysis.data_points > 5 /\ chart_placeholders >= 2 THEN 1
    ELSE 0

HasChartsScore(analysis, chart_placeholders) ==
    (IF chart_placeholders > 0 THEN 2 ELSE 0)
    + (IF analysis.data_points > 5 /\ chart_placeholders >= 2 THEN 1 ELSE 0)

\* the chart terms, were there no penalty
ChartScoreNoPenalty(analysis, layout_info) ==
    LET chart_placeholders == CountOfType(Get(layout_info, "placeholders", <<>>), {"chart"})
    IN  IF analysis.has_charts THEN HasChartsScore(analysis, chart_placeholders)
        ELSE 0

\* the chart terms, were the penalty an if of its own
ChartScorePenaltyAlways(analysis, layout_info) ==
    LET chart_placeholders == CountOfType(Get(layout_info, "placeholders", <<>>), {"chart"})
    IN  (IF analysis.has_charts THEN HasChartsScore(analysis, chart_placeholders) ELSE 0)
        + (IF chart_placeholders > 0 THEN -1 ELSE 0)

ChartScore(analysis, layout_info) ==
    LET chart_placeholders == CountOfType(Get(layout_info, "placeholders", <<>>), {"chart"})
    IN  IF analysis.has_charts THEN HasChartsScore(analysis, chart_placeholders)
        ELSE IF chart_placeholders > 0 THEN -1
        ELSE 0

DensityScore(analysis, layout_info) ==
    LET text_placeholders ==
            CountOfType(Get(layout_info, "placeholders", <<>>), {"body", "bullets"})
    IN  IF analysis.text_density = "high" /\ text_placeholders >= 2 THEN 1
        ELSE IF analysis.text_density = "low" /\ text_placeholders = 1 THEN 1
        ELSE 0

UseCaseScore(analysis, layout_info) ==
    IF analysis.content_type \in NormalizedUseCases(Get(layout_info, "use_cases", <<>>))
    THEN 1 ELSE 0

_calculate_layout_score(analysis, layout_info) ==
    0 + CategoryScore(analysis, layout_info)
      + StructureScore(analysis, layout_info)
      + ChartScore(analysis, layout_info)
      + DensityScore(analysis, layout_info)
      + UseCaseScore(analysis, layout_info)

\* the label, were its boundaries exclusive
ScoreLabelAbove(analysis, score) ==
    IF score > 3 THEN "Perfect match for " \o analysis.content_type
    ELSE IF score > 2 THEN "Good fit for " \o analysis.content_type
    ELSE IF score > 1 THEN "Suitable for " \o analysis.content_type
    ELSE "Partial match"

ScoreLabel(analysis, score) ==
    IF score >= 3 THEN "Perfect match for " \o analysis.content_type
    ELSE IF score >= 2 THEN "Good fit for " \o analysis.content_type
    ELSE IF score >= 1 THEN "Suitable for " \o analysis.content_type
    ELSE "Partial match"

\* the list reasons, were the chart clause given to every layout with a chart
\* placeholder
ReasonsOfChartLayout(analysis, layout_info, score) ==
    LET chart_count == CountOfType(Get(layout_info, "placeholders", <<>>), {"chart"})
    IN  <<ScoreLabel(analysis, score)>>
        \o (IF chart_count > 0
            THEN <<"Supports " \o ToString(chart_count) \o " chart(s)">> ELSE <<>>)
        \o (IF analysis.structure = "comparison"
               /\ Contains(Get(layout_info, "structure", ""), "two_column")
            THEN <<"Ideal for comparisons">> ELSE <<>>)

\* the list reasons
Reasons(analysis, layout_info, score) ==
    LET chart_count == CountOfType(Get(layout_info, "placeholders", <<>>), {"chart"})
    IN  <<ScoreLabel(analysis, score)>>
        \o (IF analysis.has_charts /\ chart_count > 0
            THEN <<"Supports " \o ToString(chart_count) \o " chart(s)">> ELSE <<>>)
        \o (IF analysis.structure = "comparison"
               /\ Contains(Get(layout_info, "structure", ""), "two_column")
            THEN <<"Ideal for comparisons">> ELSE <<>>)

_generate_recommendation_reason(analysis, layout_info, score) ==
    Get(layout_info, "semantic_name", "Unknown Layout") \o ": "
    \o Join(Reasons(analysis, layout_info, score), ", ")

(***************************************************************************)
(* recommend_layouts and get_layout_details.  The catalog self.layouts is  *)
(* a sequence of <<layout_id, layout_info>> in the order of the document.  *)
(***************************************************************************)
\* recommendations.append((layout_id, score, reason)) for each catalog entry
ScoreAll(catalog, analysis) ==
    [i \in 1..Len(catalog) |->
        LET score == _calculate_layout_score(analysis, catalog[i][2])
        IN  <<catalog[i][1], score,
              _generate_recommendation_reason(analysis, catalog[i][2], score)>>]

\* the sort, were it to put an entry before the entries of equal score
InsertBeforeEqual(sorted, x) ==
    LET k == Cardinality({j \in 1..Len(sorted) : sorted[j][2] > x[2]})
    IN  SubSeq(sorted, 1, k) \o <<x>> \o SubSeq(sorted, k + 1, Len(sorted))

\* list.sort(key=lambda x: x[1], reverse=True) is stable: an entry goes after
\* every entry already placed whose score is greater or equal
InsertByScore(sorted, x) ==
    LET k == Cardinality({j \in 1..Len(sorted) : sorted[j][2] >= x[2]})
    IN  SubSeq(sorted, 1, k) \o <<x>> \o SubSeq(sorted, k + 1, Len(sorted))

RECURSIVE SortFrom(_, _, _)
SortFrom(recs, i, sorted) ==
    IF i > Len(recs) THEN sorted
    ELSE SortFrom(recs, i + 1, InsertByScore(sorted, recs[i]))

SortByScoreDesc(recs) == SortFrom(recs, 1, <<>>)

\* seq[-n:], for n >= 1
SliceLast(seq, n) ==
    IF n >= 1 THEN SubSeq(seq, IF Len(seq) - n + 1 > 1 THEN Len(seq) - n + 1 ELSE 1, Len(seq))
    ELSE <<>>

\* seq[:n + 1]
SliceToInclusive(seq, n) ==
    IF n + 1 >= 0 THEN SubSeq(seq, 1, IF n + 1 < Len(seq) THEN n + 1 ELSE Len(seq))
    ELSE SubSeq(seq, 1, IF Len(seq) + n + 1 > 0 THEN Len(seq) + n + 1 ELSE 0)

\* seq[:n]
SliceTo(seq, n) ==
    IF n >= 0 THEN SubSeq(seq, 1, IF n < Len(seq) THEN n ELSE Len(seq))
    ELSE SubSeq(seq, 1, IF Len(seq) + n > 0 THEN Len(seq) + n ELSE 0)

\* the sorted list of all recommendations, before the slice
Ranking(catalog, content) == SortByScoreDesc(ScoreAll(catalog, analyze_content(content)))

recommend_layouts(catalog, content, top_n) == SliceTo(Ranking(catalog, content), top_n)

LayoutIds(catalog) == {catalog[i][1] : i \in 1..Len(catalog)}

\* self.layouts[layout_id]
Lookup(catalog, layout_id) ==
    catalog[CHOOSE i \in 1..Len(catalog) : catalog[i][1] = layout_id][2]

\* the counts, were a placeholder without the field left out of them
CountByPresent(placeholders, field, default) ==
    LET tags == {placeholders[k][field] :
                    k \in {k \in DOMAIN placeholders : field \in DOMAIN placeholders[k]}}
    IN  [tag \in tags |->
            Cardinality({k \in DOMAIN placeholders :
                            field \in DOMAIN placeholders[k] /\ placeholders[k][field] = tag})]

\* the counts of summary['by_type'] and summary['by_column'], lines 265-272
CountBy(placeholders, field, default) ==
    LET tags == {Get(placeholders[k], field, default) : k \in DOMAIN placeholders}
    IN  [tag \in tags |->
            Cardinality({k \in DOMAIN placeholders : Get(placeholders[k], field, default) = tag})]

_summarize_placeholders(layout) ==
    LET placeholders == Get(layout, "placeholders", <<>>)
    IN  [total_count |-> Cardinality(DOMAIN placeholders),
         by_type |-> CountBy(placeholders, "type", "unknown"),
         by_column |-> CountBy(placeholders, "column", "none"),
         required_count |->
            Cardinality({k \in DOMAIN placeholders : Get(placeholders[k], "required", FALSE)})]

get_layout_details(catalog, layout_id) ==
    IF layout_id \notin LayoutIds(catalog)
    THEN [error |-> "Layout " \o layout_id \o " not found"]
    ELSE LET layout == Lookup(catalog, layout_id)
         IN  [k \in DOMAIN layout \cup {"ai_optimized", "placeholder_summary"} |->
                IF k = "ai_optimized" THEN TRUE
                ELSE IF k = "placeholder_summary" THEN _summarize_placeholders(layout)
                ELSE layout[k]]

(***************************************************************************)
(* The catalogs and the content bundles the callers draw from.             *)
(***************************************************************************)
Layout11 ==
    [semantic_name |-> "Content_SingleColumn_Narrative",
     category |-> "content",
     structure |-> "single_column",
     use_cases |-> <<"narrative", "general content">>,
     placeholders |->
        [title |-> [type |-> "title", required |-> TRUE],
         body |-> [type |-> "body", required |-> TRUE]]]

Layout17 ==
    [semantic_name |-> "Dashboard_DualChart_RevenueVsCost",
     category |-> "data_visualization",
     subcategory |-> "financial_dashboard",
     structure |-> "two_column_charts",
     use_cases |-> <<"data visualization", "dashboard">>,
     placeholders |->
        [title |-> [type |-> "title", required |-> TRUE],
         left_chart |-> [type |-> "chart", column |-> "left", required |-> TRUE],
         right_chart |-> [type |-> "chart", column |-> "right"],
         left_text |-> [type |-> "body", column |-> "left"],
         right_text |-> [type |-> "body", column |-> "right"]]]

Layout20 ==
    [semantic_name |-> "Comparison_TwoColumn_BeforeAfter",
     category |-> "comparison",
     structure |-> "two_column",
     use_cases |-> <<"comparison", "data table">>,
     placeholders |->
        [title |-> [type |-> "title"],
         left_points |-> [type |-> "bullets", column |-> "left"],
         right_points |-> [column |-> "right"]]]

CatalogEntries == << <<"11", Layout11>>, <<"17", Layout17>>, <<"20", Layout20>> >>

\* the empty catalog, and the three layouts in ascending, descending and mixed
\* document order
Catalogs ==
    {<<>>} \cup {[i \in 1..Len(CatalogEntries) |-> CatalogEntries[p[i]]] :
                    p \in {<<1, 2, 3>>, <<3, 2, 1>>, <<2, 3, 1>>}}

KeyPool == <<"title", "chart_data", "left", "notes">>

ValuePool ==
    {Str("Revenue grew 15% to $45M"),
     Str("compared"),
     Str("to plan. First. Done."),
     Str("Meanwhile a photo"),
     List(<<Str("Costs down 8%"), PyInt(42)>>),
     Dict(<< <<"occupancy", Str("89.1% occupancy table")>> >>),
     None}

\* the mappings of at most MaxEntries entries: distinct keys taken in the order
\* of KeyPool, each with any value of ValuePool
DictBundles ==
    UNION {{Dict([i \in 1..n |-> <<KeyPool[ks[i]], vs[i]>>]) :
                ks \in {f \in [1..n -> 1..Len(KeyPool)] :
                            \A i, j \in 1..n : i < j => f[i] < f[j]},
                vs \in [1..n -> ValuePool]} : n \in 0..MaxEntries}

\* a text of n words
RECURSIVE Words(_, _)
Words(n, sep) ==
    IF n = 0 THEN ""
    ELSE IF n = 1 THEN "w" \o sep
    ELSE Words(n \div 2, sep) \o Words(n - n \div 2, sep)

\* a bundle whose corpus has n words: a bare string of words separated by
\* spaces, or a mapping whose one value holds the words on n lines
WordBundle(n) ==
    IF n % 2 = 0 THEN Str(Words(n, " "))
    ELSE Dict(<< <<"title", Str(Words(n, "\n"))>> >>)

WordBundleOf == [n \in 0..MaxWords |-> WordBundle(n)]

WordBundles == {WordBundleOf[n] : n \in 0..MaxWords}

OtherBundles ==
    {None, PyInt(2024), List(<<Str("revenue chart")>>),
     Dict(<< <<"items", List(<<Dict(<< <<"revenue", Str("up")>> >>)>>)>> >>),
     Str("Before vs After"), Str("One. Two. Three."), Str("A. B."),
     Str("Cost of revenue: revenue costs"),
     Dict(<< <<"notes", Str("")>> >>),
     Dict(<< <<"title", Str("Q3 Results")>>,
             <<"revenue_chart", Str("Revenue grew 15% to $45M")>>,
             <<"cost_analysis", Str("Costs down 8%")>> >>)}

Bundles == DictBundles \cup WordBundles \cup OtherBundles

\* analyze_content of every bundle of the callers
AnalysisOf == [content \in Bundles |-> analyze_content(content)]

TopNs == (-2)..MaxTopN

DetailIds == {"11", "17", "20", "99"}

(***************************************************************************)
(* The selector: constructed with a catalog, then called by its callers.   *)
(***************************************************************************)
Idle == [op |-> "idle"]
NoRet == [kind |-> "none"]
Return(value) == [kind |-> "return", value |-> value]

Init ==
    /\ layouts \in Catalogs
    /\ call = Idle
    /\ ret = NoRet
    /\ selector = "constructed"
    /\ threads = <<>>

Analyze ==
    /\ selector = "constructed"
    /\ call = Idle
    /\ \E content \in Bundles :
        /\ call' = [op |-> "analyze_content", content |-> content]
        /\ ret' = Return(analyze_content(content))
    /\ UNCHANGED <<layouts, selector, threads>>

\* recommend_layouts(content, top_n); the ranking of a content is evaluated
\* once for all the top_n it is sliced by
Recommend ==
    /\ selector = "constructed"
    /\ call = Idle
    /\ \E content \in Bundles :
        \E recommendations \in {Ranking(layouts, content)} :
            \E top_n \in TopNs :
                /\ call' = [op |-> "recommend_layouts", content |-> content, top_n |-> top_n]
                /\ ret' = Return(SliceTo(recommendations, top_n))
    /\ UNCHANGED <<layouts, selector, threads>>

GetLayoutDetails ==
    /\ selector = "constructed"
    /\ call = Idle
    /\ \E layout_id \in DetailIds :
        /\ call' = [op |-> "get_layout_details", layout_id |-> layout_id]
        /\ ret' = Return(get_layout_details(layouts, layout_id))
    /\ UNCHANGED <<layouts, selector, threads>>

\* the caller takes the result; the selector is ready for the next call
Done ==
    /\ call # Idle
    /\ call' = Idle
    /\ ret' = NoRet
    /\ UNCHANGED <<layouts, selector, threads>>

Next == Analyze \/ Recommend \/ GetLayoutDetails \/ Done

Spec == Init /\ [][Next]_vars

(***************************************************************************)
(* The scoring engine on its own: _calculate_layout_score applied to any   *)
(* ContentAnalysis and any layout descriptor.                              *)
(***************************************************************************)
ContentTypes ==
    {"dashboard", "data_visualization", "data_table", "narrative",
     "comparison", "bullet_points", "general_content"}
Densities == {"low", "medium", "high"}
Structures == {"comparison", "list", "narrative", "single_topic"}

Analyses ==
    [content_type : ContentTypes,
     has_charts : BOOLEAN,
     has_tables : {FALSE},
     has_images : {FALSE},
     text_density : Densities,
     structure : Structures,
     data_points : {0, 5} \cup 6..MaxDataPoints,
     key_metrics : {<<>>}]


\* nc chart placeholders and nt text placeholders next to a title and a
\* placeholder that has no type
PlaceholdersOf(nc, nt) ==
    [k \in {"title", "footer"} \cup {"chart" \o ToString(i) : i \in 1..nc}
           \cup {"text" \o ToString(i) : i \in 1..nt} |->
        IF k = "title" THEN [type |-> "title", required |-> TRUE]
        ELSE IF k = "footer" THEN [semantic_name |-> "Footer"]
        ELSE IF k \in {"chart" \o ToString(i) : i \in 1..nc} THEN [type |-> "chart"]
        ELSE IF k = "text1" THEN [type |-> "bullets"]
        ELSE [type |-> "body"]]

\* descriptors with every field, and descriptors that lack fields
LayoutInfos ==
    [semantic_name : {"Layout"},
     category : {"data_visualization", "content"},
     subcategory : {"kpi_dashboard", "general"},
     structure : {"two_column_split", "single_column"},
     use_cases : {<<"data visualization", "narrative">>,
                  <<"kpi dashboard", "dashboard", "comparison">>},
     placeholders : {PlaceholdersOf(nc, nt) : nc \in 0..MaxPerType, nt \in 0..MaxPerType}]
    \cup {[semantic_name |-> "Bare"],
          [placeholders |-> PlaceholdersOf(1, 1)],
          [category |-> "content", use_cases |-> <<>>]}

InitScore ==
    /\ layouts = <<>>
    /\ call = Idle
    /\ ret = NoRet
    /\ selector = "constructed"
    /\ threads = <<>>

CalculateLayoutScore ==
    /\ call = Idle
    /\ \E analysis \in Analyses, layout_info \in LayoutInfos :
        /\ call' = [op |-> "_calculate_layout_score",
                    analysis |-> analysis, layout_info |-> layout_info]
        /\ ret' = Return(_calculate_layout_score(analysis, layout_info))
    /\ UNCHANGED <<layouts, selector, threads>>

NextScore == CalculateLayoutScore \/ Done

SpecScore == InitScore /\ [][NextScore]_vars

(***************************************************************************)
(* The claims.                                                             *)
(***************************************************************************)
IsCall(op) == call.op = op

ChartCount(L) == CountOfType(Get(L, "placeholders", <<>>), {"chart"})
TextCount(L) == CountOfType(Get(L, "placeholders", <<>>), {"body", "bullets"})

\* the eleven rows of the scoring table, each with its condition and effect
Rows(a, L) ==
    << <<a.content_type = "data_visualization"
            /\ Get(L, "category", "") = "data_visualization", 3>>,
       <<a.content_type = "narrative" /\ Get(L, "category", "") = "content", 3>>,
       <<a.content_type = "dashboard"
            /\ Contains(Get(L, "subcategory", ""), "dashboard"), 3>>,
       <<a.structure = "comparison" /\ Contains(Get(L, "structure", ""), "two_column"), 2>>,
       <<a.structure = "single_topic"
            /\ Contains(Get(L, "structure", ""), "single_column"), 2>>,
       <<a.has_charts /\ ChartCount(L) >= 1, 2>>,
       <<a.has_charts /\ a.data_points > 5 /\ ChartCount(L) >= 2, 1>>,
       <<~a.has_charts /\ ChartCount(L) >= 1, -1>>,
       <<a.text_density = "high" /\ TextCount(L) >= 2, 1>>,
       <<a.text_density = "low" /\ TextCount(L) = 1, 1>>,
       <<\E i \in 1..Len(Get(L, "use_cases", <<>>)) :
            ReplaceSpace(Get(L, "use_cases", <<>>)[i]) = a.content_type, 1>> >>

RECURSIVE SumOfFiring(_, _)
SumOfFiring(rows, i) ==
    IF i > Len(rows) THEN 0
    ELSE (IF rows[i][1] THEN rows[i][2] ELSE 0) + SumOfFiring(rows, i + 1)

Firing(rows) == {i \in 1..Len(rows) : rows[i][1]}

Min(a, b) == IF a < b THEN a ELSE b

NonIncreasing(recs) == \A i, j \in 1..Len(recs) : i < j => recs[i][2] >= recs[j][2]

\* C2: for top_n >= 1, recommend returns exactly min(top_n, number of catalog
\* entries) recommendations, and their scores never increase from first to last.
C2_LengthAndOrder ==
    (IsCall("recommend_layouts") /\ call.top_n >= 1) =>
        /\ ret.kind = "return"
        /\ Len(ret.value) = Min(call.top_n, Len(layouts))
        /\ NonIncreasing(ret.value)

\* a call that truncates the ranking and returns strictly decreasing scores
C2_Witness ==
    /\ IsCall("recommend_layouts")
    /\ call.top_n = 2
    /\ Len(layouts) = 3
    /\ Len(ret.value) = 2
    /\ ret.value[1][2] > ret.value[2][2]

\* the layout ids of the catalogs, ascending
AscendingIds == <<"11", "17", "20">>
IdRank(id) == CHOOSE i \in 1..Len(AscendingIds) : AscendingIds[i] = id
CatalogPos(catalog, id) == CHOOSE i \in 1..Len(catalog) : catalog[i][1] = id

\* C3 as stated: in the result of recommend, entries with equal score are in
\* ascending layout id order, whatever the order of the catalog.
C3_TiesAscendingId ==
    (IsCall("recommend_layouts") /\ call.top_n >= 1) =>
        \A i, j \in 1..Len(ret.value) :
            (i < j /\ ret.value[i][2] = ret.value[j][2])
                => IdRank(ret.value[i][1]) < IdRank(ret.value[j][1])

\* C3 amended: entries with equal score are in the order of the catalog, and
\* the result is the catalog sorted by (score descending, catalog position
\* ascending) and truncated to top_n.
C3_TiesCatalogOrder ==
    (IsCall("recommend_layouts") /\ call.top_n >= 1) =>
        \A a \in {AnalysisOf[call.content]} :
        \A score \in {[i \in 1..Len(layouts) |-> _calculate_layout_score(a, layouts[i][2])]} :
            /\ Len(ret.value) = Min(call.top_n, Len(layouts))
            /\ \A n \in 1..Len(ret.value) :
                /\ ret.value[n][1] \in LayoutIds(layouts)
                /\ \A i \in {CatalogPos(layouts, ret.value[n][1])} :
                    /\ ret.value[n][2] = score[i]
                    /\ Cardinality({j \in 1..Len(layouts) :
                            score[j] > score[i] \/ (score[j] = score[i] /\ j < i)}) = n - 1

\* two entries tie and the catalog lists them in descending id order
C3_Witness ==
    /\ IsCall("recommend_layouts")
    /\ call.top_n >= 2
    /\ Len(ret.value) >= 2
    /\ ret.value[1][2] = ret.value[2][2]
    /\ IdRank(ret.value[1][1]) > IdRank(ret.value[2][1])

\* C4: for every top_n <= 0, recommend fails with an InvalidArgument condition
\* and returns no recommendations, neither an empty nor a partial list.
C4_NonPositiveTopNFails ==
    (IsCall("recommend_layouts") /\ call.top_n <= 0) => ret.kind = "raise"

EmptyAnalysis ==
    [content_type |-> "general_content",
     has_charts |-> FALSE,
     has_tables |-> FALSE,
     has_images |-> FALSE,
     text_density |-> "low",
     structure |-> "single_topic",
     data_points |-> 0,
     key_metrics |-> <<>>]

WellFormed(a) ==
    /\ DOMAIN a = DOMAIN EmptyAnalysis
    /\ a.content_type \in ContentTypes
    /\ a.has_charts \in BOOLEAN /\ a.has_tables \in BOOLEAN /\ a.has_images \in BOOLEAN
    /\ a.text_density \in Densities
    /\ a.structure \in Structures
    /\ a.data_points \in Nat
    /\ \A i \in 1..Len(a.key_metrics) :
            \E j \in 1..Len(metric_keywords) : a.key_metrics[i] = metric_keywords[j]

\* what an analysis detects in the text alone
TextFeatures(a) ==
    <<a.has_charts, a.has_tables, a.has_images, a.text_density, a.data_points, a.key_metrics>>

HasRecognisedShape(p) == IsStr(p[2]) \/ IsList(p[2])

\* C5: analyze is total: for a mapping (also the empty one), a bare string, a
\* mapping with values of any shape and a value that is neither, it returns a
\* ContentAnalysis and never raises; a value of an unrecognised shape
\* contributes no detected feature.
C5_AnalyzeIsTotal ==
    IsCall("analyze_content") =>
        /\ ret.kind = "return"
        /\ WellFormed(ret.value)
        /\ (~IsDict(call.content) /\ ~IsStr(call.content)) => ret.value = EmptyAnalysis
        /\ IsDict(call.content) =>
            \A b \in {analyze_content(Dict(SelectSeq(call.content.v, HasRecognisedShape)))} :
                /\ TextFeatures(ret.value) = TextFeatures(b)
                /\ (\A i \in 1..Len(call.content.v) :
                        HasRecognisedShape(call.content.v[i])
                        \/ call.content.v[i][1] \notin ComparisonKeys)
                    => ret.value = b

\* a mapping with a value of an unrecognised shape next to a text with a chart
\* keyword, and a call with a value that is neither a mapping nor a string
C5_Witness ==
    /\ IsCall("analyze_content")
    /\ IsDict(call.content)
    /\ Len(call.content.v) = 2
    /\ call.content.v[1][2].t = "none"
    /\ call.content.v[2][2].t = "str"
    /\ ret.value.has_charts

\* C6: analyze of the empty mapping, and of the empty string, returns low
\* density, no data point, general_content, no chart, table or image, no key
\* metric and the structure single_topic.
C6_EmptyInput ==
    (/\ IsCall("analyze_content")
     /\ \/ IsDict(call.content) /\ Len(call.content.v) = 0
        \/ IsStr(call.content) /\ call.content.v = "")
    => (ret.kind = "return" /\ ret.value = EmptyAnalysis)

C6_Witness ==
    /\ IsCall("analyze_content")
    /\ IsDict(call.content)
    /\ Len(call.content.v) = 0
    /\ ret.value = EmptyAnalysis

\* the number of words of a text, counted at the ends of the words
WordEnds(s) ==
    {i \in 1..Len(s) : ~IsSpace(Char(s, i)) /\ (i = Len(s) \/ IsSpace(Char(s, i + 1)))}

DensityOf(w) == IF w < 20 THEN "low" ELSE IF w < 100 THEN "medium" ELSE "high"

\* C7: text_density is low iff the corpus has fewer than 20 words, medium iff
\* it has 20 to 99, high iff it has 100 or more; 19, 20, 99 and 100 words give
\* low, medium, medium and high.
C7_DensityBoundaries ==
    IsCall("analyze_content") =>
        /\ \A n \in 0..MaxWords :
            (call.content.t = WordBundleOf[n].t /\ call.content = WordBundleOf[n])
                => ret.value.text_density = DensityOf(n)
        /\ \A w \in {Cardinality(WordEnds(ExtractText(call.content)))} :
            /\ ret.value.text_density = "low" <=> w < 20
            /\ ret.value.text_density = "medium" <=> (20 <= w /\ w < 100)
            /\ ret.value.text_density = "high" <=> w >= 100
        /\ \A k \in 1..4 :
            \A n \in {<<19, 20, 99, 100>>[k]} :
                (call.content.t = WordBundleOf[n].t /\ call.content = WordBundleOf[n])
                    => ret.value.text_density = <<"low", "medium", "medium", "high">>[k]

\* the corpus of exactly 100 words is analyzed
C7_Witness ==
    /\ IsCall("analyze_content")
    /\ IsStr(call.content)
    /\ call.content = WordBundleOf[100]
    /\ ret.value.text_density = "high"

\* C8: content_type follows the precedence dashboard (charts and tables),
\* data_visualization (charts only), data_table (tables only), narrative (high
\* density), comparison, bullet_points (list), general_content; chart and
\* table keywords together never give data_visualization or data_table.
C8_ContentTypePrecedence ==
    IsCall("analyze_content") =>
        LET a == ret.value
            data == a.has_charts \/ a.has_tables
        IN  /\ a.content_type = "dashboard" <=> (a.has_charts /\ a.has_tables)
            /\ a.content_type = "data_visualization" <=> (a.has_charts /\ ~a.has_tables)
            /\ a.content_type = "data_table" <=> (a.has_tables /\ ~a.has_charts)
            /\ a.content_type = "narrative" <=> (~data /\ a.text_density = "high")
            /\ a.content_type = "comparison"
                <=> (~data /\ a.text_density # "high" /\ a.structure = "comparison")
            /\ a.content_type = "bullet_points"
                <=> (~data /\ a.text_density # "high" /\ a.structure = "list")
            /\ a.content_type = "general_content"
                <=> (~data /\ a.text_density # "high"
                     /\ a.structure \notin {"comparison", "list"})
            /\ \A low \in {Lower(ExtractText(call.content))} :
                (AnyIn(ChartKeywords, low) /\ AnyIn(TableKeywords, low))
                    => a.content_type = "dashboard"

\* a bundle with a chart keyword and a table keyword
C8_Witness ==
    /\ IsCall("analyze_content")
    /\ ret.value.has_charts
    /\ ret.value.has_tables
    /\ ret.value.content_type = "dashboard"

HasComparisonKey(content) ==
    IsDict(content) /\ \E i \in 1..Len(content.v) : content.v[i][1] \in ComparisonKeys

HasListValue(content) ==
    IsDict(content) /\ \E i \in 1..Len(content.v) : IsList(content.v[i][2])

\* C9: a mapping with a key among left, right, before, after, vs is a
\* comparison whatever its values and text; else a mapping with a sequence
\* value is a list whatever the text; only otherwise does the text decide.
C9_StructurePrecedence ==
    IsCall("analyze_content") =>
        /\ HasComparisonKey(call.content) => ret.value.structure = "comparison"
        /\ (~HasComparisonKey(call.content) /\ HasListValue(call.content))
            => ret.value.structure = "list"
        /\ (~HasComparisonKey(call.content) /\ ~HasListValue(call.content))
            => ret.value.structure
                = analyze_content(Str(ExtractText(call.content))).structure

\* a mapping with the key left, a sequence value and a text whose words alone
\* would make it a list
C9_Witness ==
    /\ IsCall("analyze_content")
    /\ HasComparisonKey(call.content)
    /\ HasListValue(call.content)
    /\ analyze_content(Str(ExtractText(call.content))).structure = "list"
    /\ ret.value.structure = "comparison"

\* the entries of a mapping, those of its nested mappings put in their place
RECURSIVE Hoist(_)
Hoist(ps) ==
    IF Len(ps) = 0 THEN <<>>
    ELSE (IF IsDict(ps[1][2]) THEN Hoist(ps[1][2].v) ELSE <<ps[1]>>) \o Hoist(Tail(ps))

\* C10: the corpus holds every string leaf of the bundle at any depth: a string
\* inside a nested mapping counts for the keywords, the word count, the data
\* points and the key metrics exactly as the same string at top level would.
C10_NestedLeavesInCorpus ==
    (IsCall("analyze_content") /\ IsDict(call.content)) =>
        TextFeatures(ret.value) = TextFeatures(analyze_content(Dict(Hoist(call.content.v))))

\* the key names of a bundle, at every depth
RECURSIVE AllKeys(_)
AllKeys(x) ==
    IF IsDict(x) THEN UNION {{x.v[i][1]} \cup AllKeys(x.v[i][2]) : i \in 1..Len(x.v)}
    ELSE IF IsList(x) THEN UNION {AllKeys(x.v[i]) : i \in 1..Len(x.v)}
    ELSE {}

\* key names that are no hint and hold no word of a vocabulary
FreshKeys == <<"ka", "kb", "kc", "kd">>

\* the bundle with every key name replaced, at every depth
RECURSIVE RenameKeys(_)
RenameKeys(x) ==
    IF IsDict(x)
    THEN Dict([i \in 1..Len(x.v) |-> <<FreshKeys[i], RenameKeys(x.v[i][2])>>])
    ELSE IF IsList(x) THEN List([i \in 1..Len(x.v) |-> RenameKeys(x.v[i])])
    ELSE x

\* C11: key names never enter the corpus, at any depth: a bundle none of whose
\* keys is a structure hint gives the same ContentAnalysis as the bundle that
\* differs from it only by its key names.
C11_KeyNamesNotInCorpus ==
    (IsCall("analyze_content") /\ AllKeys(call.content) \cap ComparisonKeys = {}) =>
        ret.value = analyze_content(RenameKeys(call.content))

(***************************************************************************)
(* Concurrent callers of one selector.  Each caller runs one method at a   *)
(* time, statement by statement; the statements of different callers       *)
(* interleave.  A frame holds the locals of the method a caller is in.     *)
(* Dicts are objects: a frame of get_layout_details holds references, to   *)
(* an entry of self.layouts or to the dict the frame created.              *)
(***************************************************************************)
MaxCallers == 2

Callers == 1..MaxCallers

CallerBundles ==
    {Dict(<< <<"left", Str("Revenue grew 15% to $45M")>> >>),
     Str("One. Two. Three.")}

\* a top_n below the size of the catalog
CallerTopNs == {MaxTopN - 1}

CallerIds == {"17", "99"}

IdleFrame == [pc |-> "idle"]

\* self.layouts[layout_id], the object
CatalogRef(layout_id) == [obj |-> "catalog", id |-> layout_id]
\* the dict a frame created
LocalRef == [obj |-> "local"]

\* enhanced_layout = layout, were there no copy: the same object
DictAlias(ref) == ref

\* layout.copy(): a new dict with the items of layout
DictCopy(ref) == LocalRef

\* d[key] = value
SetItem(d, key, value) ==
    [k \in DOMAIN d \cup {key} |-> IF k = key THEN value ELSE d[k]]

\* self.layouts after ref[key] = value
StoreInCatalog(catalog, ref, key, value) ==
    IF ref.obj = "catalog"
    THEN [i \in 1..Len(catalog) |->
            IF catalog[i][1] = ref.id
            THEN <<ref.id, SetItem(catalog[i][2], key, value)>> ELSE catalog[i]]
    ELSE catalog

\* the frame after ref[key] = value
StoreInFrame(frame, ref, key, value) ==
    IF ref.obj = "local" THEN [frame EXCEPT !.copy = SetItem(@, key, value)]
    ELSE frame

\* the dict ref refers to
Deref(catalog, frame, ref) ==
    IF ref.obj = "local" THEN frame.copy ELSE Lookup(catalog, ref.id)

\* {"error": f"Layout {layout_id} not found"}, were the id left out
NotFoundAnonymous(layout_id) == [error |-> "Layout not found"]

\* {"error": f"Layout {layout_id} not found"}
NotFound(layout_id) == [error |-> "Layout " \o layout_id \o " not found"]

\* the analysis, were it kept in a field of the selector that every caller
\* writes: the one of the first caller that has one
AnalysisOfSelector(ths, t) ==
    LET holders == {u \in DOMAIN ths : "analysis" \in DOMAIN ths[u]}
    IN  ths[CHOOSE u \in holders : \A v \in holders : u <= v].analysis

\* the local analysis of recommend_layouts
AnalysisFor(ths, t) == ths[t].analysis

InitCallers ==
    /\ layouts \in Catalogs
    /\ call = Idle
    /\ ret = NoRet
    /\ selector = "constructed"
    /\ threads = [t \in Callers |-> IdleFrame]

\* analyze_content(content): it reads and writes nothing but its locals
CallerAnalyze ==
    /\ selector = "constructed"
    /\ \E t \in Callers, content \in CallerBundles :
        /\ threads[t] = IdleFrame
        /\ threads' = [threads EXCEPT ![t] =
                [pc |-> "returned", op |-> "analyze_content", content |-> content,
                 value |-> analyze_content(content)]]
    /\ UNCHANGED <<layouts, call, ret, selector>>

\* the loop of line 158, were it to stop before the last entry
ExhaustedBeforeLast(i, catalog) == i >= Len(catalog)

\* the iterator of self.layouts.items() has no i-th entry to yield
Exhausted(i, catalog) == i > Len(catalog)

\* recommend_layouts, lines 155-156 and the start of the loop of line 158
RecommendBegin ==
    /\ selector = "constructed"
    /\ \E t \in Callers, content \in CallerBundles, top_n \in CallerTopNs :
        /\ threads[t] = IdleFrame
        /\ threads' = [threads EXCEPT ![t] =
                [pc |-> "score", op |-> "recommend_layouts", content |-> content,
                 top_n |-> top_n, analysis |-> analyze_content(content),
                 recommendations |-> <<>>, i |-> 1]]
    /\ UNCHANGED <<layouts, call, ret, selector>>

\* one turn of the loop, lines 158-161, on the next entry of self.layouts
RecommendScoreNext ==
    /\ \E t \in Callers :
        /\ threads[t].pc = "score"
        /\ ~Exhausted(threads[t].i, layouts)
        /\ LET layout_id == layouts[threads[t].i][1]
               layout_info == layouts[threads[t].i][2]
               analysis == AnalysisFor(threads, t)
               score == _calculate_layout_score(analysis, layout_info)
               reason == _generate_recommendation_reason(analysis, layout_info, score)
           IN  threads' = [threads EXCEPT ![t] =
                    [@ EXCEPT !.recommendations = Append(@, <<layout_id, score, reason>>),
                              !.i = @ + 1]]
    /\ UNCHANGED <<layouts, call, ret, selector>>

\* line 164, once the loop is over
RecommendSort ==
    /\ \E t \in Callers :
        /\ threads[t].pc = "score"
        /\ Exhausted(threads[t].i, layouts)
        /\ threads' = [threads EXCEPT ![t] =
                [@ EXCEPT !.pc = "slice",
                          !.recommendations = SortByScoreDesc(@)]]
    /\ UNCHANGED <<layouts, call, ret, selector>>

\* line 165
RecommendReturn ==
    /\ \E t \in Callers :
        /\ threads[t].pc = "slice"
        /\ threads' = [threads EXCEPT ![t] =
                [pc |-> "returned", op |-> "recommend_layouts",
                 content |-> threads[t].content, top_n |-> threads[t].top_n,
                 value |-> SliceTo(threads[t].recommendations, threads[t].top_n)]]
    /\ UNCHANGED <<layouts, call, ret, selector>>

\* get_layout_details, lines 243-246
DetailsBegin ==
    /\ selector = "constructed"
    /\ \E t \in Callers, layout_id \in CallerIds :
        /\ threads[t] = IdleFrame
        /\ threads' = [threads EXCEPT ![t] =
                IF layout_id \notin LayoutIds(layouts)
                THEN [pc |-> "returned", op |-> "get_layout_details",
                      layout_id |-> layout_id, value |-> NotFound(layout_id)]
                ELSE [pc |-> "copy", op |-> "get_layout_details",
                      layout_id |-> layout_id, layout |-> CatalogRef(layout_id)]]
    /\ UNCHANGED <<layouts, call, ret, selector>>

\* line 249
DetailsCopy ==
    /\ \E t \in Callers :
        /\ threads[t].pc = "copy"
        /\ threads' = [threads EXCEPT ![t] =
                [pc |-> "mark", op |-> "get_layout_details",
                 layout_id |-> threads[t].layout_id, layout |-> threads[t].layout,
                 enhanced_layout |-> DictCopy(threads[t].layout),
                 copy |-> Lookup(layouts, threads[t].layout.id)]]
    /\ UNCHANGED <<layouts, call, ret, selector>>

\* line 250
DetailsMark ==
    /\ \E t \in Callers :
        /\ threads[t].pc = "mark"
        /\ LET frame == threads[t]
               ref == frame.enhanced_layout
           IN  /\ threads' = [threads EXCEPT ![t] =
                        [StoreInFrame(frame, ref, "ai_optimized", TRUE)
                            EXCEPT !.pc = "summarize"]]
               /\ layouts' = StoreInCatalog(layouts, ref, "ai_optimized", TRUE)
    /\ UNCHANGED <<call, ret, selector>>

\* line 251
DetailsSummarize ==
    /\ \E t \in Callers :
        /\ threads[t].pc = "summarize"
        /\ LET frame == threads[t]
               ref == frame.enhanced_layout
               summary == _summarize_placeholders(Deref(layouts, frame, frame.layout))
           IN  /\ threads' = [threads EXCEPT ![t] =
                        [StoreInFrame(frame, ref, "placeholder_summary", summary)
                            EXCEPT !.pc = "return"]]
               /\ layouts' = StoreInCatalog(layouts, ref, "placeholder_summary", summary)
    /\ UNCHANGED <<call, ret, selector>>

\* line 253
DetailsReturn ==
    /\ \E t \in Callers :
        /\ threads[t].pc = "return"
        /\ threads' = [threads EXCEPT ![t] =
                [pc |-> "returned", op |-> "get_layout_details",
                 layout_id |-> threads[t].layout_id,
                 value |-> Deref(layouts, threads[t], threads[t].enhanced_layout)]]
    /\ UNCHANGED <<layouts, call, ret, selector>>

\* the caller takes the result and is free to call again
CallerDone ==
    /\ \E t \in Callers :
        /\ threads[t].pc = "returned"
        /\ threads' = [threads EXCEPT ![t] = IdleFrame]
    /\ UNCHANGED <<layouts, call, ret, selector>>

NextCallers ==
    \/ CallerAnalyze
    \/ RecommendBegin \/ RecommendScoreNext \/ RecommendSort \/ RecommendReturn
    \/ DetailsBegin \/ DetailsCopy \/ DetailsMark \/ DetailsSummarize \/ DetailsReturn
    \/ CallerDone

SpecCallers == InitCallers /\ [][NextCallers]_vars

\* frame holds the result of a call of op
HasReturned(frame, op) == frame.pc = "returned" /\ frame.op = op

\* C12: with a fixed catalog, analyze_content and recommend_layouts return what
\* their arguments and the catalog determine, whatever the other callers did
\* before or do meanwhile: two callers that made the same call hold equal
\* results, and each result is the one a call on its own gives.
C12_Determinism ==
    \A a \in Callers :
        /\ HasReturned(threads[a], "analyze_content") =>
            /\ threads[a].value = analyze_content(threads[a].content)
            /\ \A b \in Callers :
                (HasReturned(threads[b], "analyze_content")
                    /\ threads[b].content = threads[a].content)
                => threads[b].value = threads[a].value
        /\ HasReturned(threads[a], "recommend_layouts") =>
            /\ threads[a].value
                = recommend_layouts(layouts, threads[a].content, threads[a].top_n)
            /\ \A b \in Callers :
                (HasReturned(threads[b], "recommend_layouts")
                    /\ threads[b].content = threads[a].content
                    /\ threads[b].top_n = threads[a].top_n)
                => threads[b].value = threads[a].value

\* two callers hold the result of the same recommend_layouts call
C12_Witness ==
    /\ HasReturned(threads[1], "recommend_layouts")
    /\ HasReturned(threads[2], "recommend_layouts")
    /\ threads[1].content = threads[2].content
    /\ threads[1].top_n = threads[2].top_n
    /\ Len(threads[1].value) = MaxTopN - 1

DerivedFields == {"ai_optimized", "placeholder_summary"}

\* C13: no step of any caller writes the catalog: self.layouts stays what was
\* loaded, and no entry ever holds the fields get_layout_details adds to its
\* result.
C13_NoWritePath ==
    [][/\ layouts' = layouts
       /\ \A i \in 1..Len(layouts') : DOMAIN layouts'[i][2] \cap DerivedFields = {}]_vars

\* a caller is about to return the details of a layout, both fields written,
\* while the other is in the loop of recommend_layouts
C13_Witness ==
    /\ threads[1].pc = "return"
    /\ threads[2].pc = "score"
    /\ threads[2].i = 2
    /\ layouts \in Catalogs \ {<<>>}

Raise(exception) == [kind |-> "raise", exception |-> exception]

JsonObjectOf(members) == [t |-> "object", members |-> members]

\* json.load of a JSON object: a dict in which a key that occurs again keeps
\* its place and takes the later value
JsonDict(members) ==
    LET first == {i \in 1..Len(members) :
                    \A j \in 1..(i - 1) : members[j][1] # members[i][1]}
        last(k) == CHOOSE i \in 1..Len(members) :
                    /\ members[i][1] = k
                    /\ \A j \in (i + 1)..Len(members) : members[j][1] # k
        nth(n) == CHOOSE i \in first : Cardinality({j \in first : j <= i}) = n
    IN  [n \in 1..Cardinality(first) |->
            <<members[nth(n)][1], members[last(members[nth(n)][1])][2]>>]

\* the dict as the function the descriptors of the model hold for placeholders
AsFunction(d) == [k \in {d[i][1] : i \in 1..Len(d)} |->
                    d[CHOOSE i \in 1..Len(d) : d[i][1] = k][2]]

\* json.load of the object of one layout: fields is the record of its members
\* other than placeholders
JsonLayout(doc) ==
    [k \in DOMAIN doc.fields \cup {"placeholders"} |->
        IF k = "placeholders" THEN AsFunction(JsonDict(doc.placeholders.members))
        ELSE doc.fields[k]]

\* self.metadata['layouts'] of a loaded document
JsonLayouts(object) ==
    LET d == JsonDict(object.members)
    IN  [i \in 1..Len(d) |-> <<d[i][1], JsonLayout(d[i][2])>>]

\* SmartLayoutSelector.__init__ on a metadata document
__init__(document) ==
    IF document.t = "missing" THEN Raise("FileNotFoundError")
    ELSE IF document.t = "unreadable" THEN Raise("PermissionError")
    ELSE IF document.t = "text" THEN Raise("JSONDecodeError")
    ELSE IF document.t = "array" THEN Raise("TypeError")
    ELSE LET metadata == JsonDict(document.members)
             keys == {metadata[i][1] : i \in 1..Len(metadata)}
             item(k) == metadata[CHOOSE i \in 1..Len(metadata) : metadata[i][1] = k][2]
         IN  IF "layouts" \notin keys THEN Raise("KeyError")
             ELSE IF "content_to_layout_mapping" \notin keys THEN Raise("KeyError")
             ELSE [kind |-> "return", layouts |-> JsonLayouts(item("layouts"))]

\* the JSON object of a layout of the model, its placeholders written in the
\* order of keys
LayoutDoc(layout, keys) ==
    [fields |-> [k \in DOMAIN layout \ {"placeholders"} |-> layout[k]],
     placeholders |->
        JsonObjectOf([i \in 1..Len(keys) |-> <<keys[i], layout.placeholders[keys[i]]>>])]

Doc11 == LayoutDoc(Layout11, <<"title", "body">>)
Doc17 == LayoutDoc(Layout17, <<"title", "left_chart", "right_chart", "left_text", "right_text">>)
Doc20 == LayoutDoc(Layout20, <<"title", "left_points", "right_points">>)
\* layout 11 with the key body written twice
Doc11Twice ==
    [Doc11 EXCEPT !.placeholders =
        JsonObjectOf(Append(@.members, <<"body", [type |-> "chart"]>>))]

EmptyMapping == JsonObjectOf(<<>>)

CompleteDocument ==
    JsonObjectOf(<< <<"layouts", JsonObjectOf(<< <<"11", Doc11>>, <<"17", Doc17>>, <<"20", Doc20>> >>)>>,
                    <<"content_to_layout_mapping", EmptyMapping>> >>)

\* the same document without the content_to_layout_mapping section
NoMappingDocument == JsonObjectOf(SubSeq(CompleteDocument.members, 1, 1))

NoLayoutsDocument == JsonObjectOf(SubSeq(CompleteDocument.members, 2, 2))

\* the layout id 11 written twice
TwiceIdDocument ==
    JsonObjectOf(<< <<"layouts", JsonObjectOf(<< <<"11", Doc11>>, <<"17", Doc17>>, <<"11", Doc20>> >>)>>,
                    <<"content_to_layout_mapping", EmptyMapping>> >>)

TwiceKeyDocument ==
    JsonObjectOf(<< <<"layouts", JsonObjectOf(<< <<"11", Doc11Twice>>, <<"17", Doc17>> >>)>>,
                    <<"content_to_layout_mapping", EmptyMapping>> >>)

Documents ==
    {[t |-> "missing"], [t |-> "unreadable"], [t |-> "text"], [t |-> "array"],
     CompleteDocument, NoMappingDocument, NoLayoutsDocument,
     TwiceIdDocument, TwiceKeyDocument}

ServerBundles == CallerBundles \cup OtherBundles

\* the arguments of a tool call: a JSON object whose members may be missing
RecommendArguments ==
    {[content |-> c, top_n |-> n] : c \in ServerBundles, n \in TopNs}
    \cup {[content |-> c] : c \in ServerBundles} \cup {<<>>}
AnalyzeArguments == {[content |-> c] : c \in ServerBundles} \cup {<<>>}
DetailsArguments == {[layout_id |-> id] : id \in DetailIds} \cup {<<>>}

\* [{"type": "text", "text": ...}]: the text is kept as what it reports (says)
\* and the values it is formatted from (data)
TextContent(says, data) == <<[type |-> "text", says |-> says, data |-> data]>>

InitServer ==
    /\ layouts = <<>>
    /\ call = Idle
    /\ ret = NoRet
    /\ selector = "unconstructed"
    /\ threads = <<>>

\* the import of the server module, lines 16-22: an exception of the
\* constructor is caught and smart_selector is None
LoadSmartSelector ==
    /\ selector = "unconstructed"
    /\ call = Idle
    /\ \E document \in Documents :
        \E outcome \in {__init__(document)} :
            /\ call' = [op |-> "SmartLayoutSelector", document |-> document]
            /\ IF outcome.kind = "return"
               THEN /\ ret' = Return(None)
                    /\ selector' = "constructed"
                    /\ layouts' = outcome.layouts
               ELSE /\ ret' = outcome
                    /\ selector' = "none"
                    /\ layouts' = layouts
    /\ UNCHANGED threads

handle_recommend_layout(sel, catalog, arguments) ==
    LET content == Get(arguments, "content", Dict(<<>>))
        top_n == Get(arguments, "top_n", 3)
    IN  IF sel # "constructed"
        THEN TextContent("Smart Layout Recommendations Not Available", <<>>)
        ELSE TextContent("Smart Layout Recommendations",
                         [analysis |-> analyze_content(content),
                          recommendations |-> recommend_layouts(catalog, content, top_n)])

handle_analyze_content(sel, arguments) ==
    LET content == Get(arguments, "content", Dict(<<>>))
    IN  IF sel # "constructed"
        THEN TextContent("Content Analysis Not Available", <<>>)
        ELSE TextContent("Content Analysis Report", analyze_content(content))

handle_get_layout_details(sel, catalog, arguments) ==
    LET layout_id == Get(arguments, "layout_id", "")
    IN  IF sel # "constructed"
        THEN TextContent("Layout Details Not Available", <<>>)
        ELSE LET layout_details == get_layout_details(catalog, layout_id)
             IN  IF "error" \in DOMAIN layout_details
                 THEN TextContent("Error", layout_details.error)
                 ELSE TextContent("Layout Details", layout_details)

\* call_tool: the server answers tool calls once the module is imported
HandleRecommendLayout ==
    /\ selector # "unconstructed"
    /\ call = Idle
    /\ \E arguments \in RecommendArguments :
        /\ call' = [op |-> "recommend_layout", arguments |-> arguments]
        /\ ret' = Return(handle_recommend_layout(selector, layouts, arguments))
    /\ UNCHANGED <<layouts, selector, threads>>

HandleAnalyzeContent ==
    /\ selector # "unconstructed"
    /\ call = Idle
    /\ \E arguments \in AnalyzeArguments :
        /\ call' = [op |-> "analyze_content", arguments |-> arguments]
        /\ ret' = Return(handle_analyze_content(selector, arguments))
    /\ UNCHANGED <<layouts, selector, threads>>

HandleGetLayoutDetails ==
    /\ selector # "unconstructed"
    /\ call = Idle
    /\ \E arguments \in DetailsArguments :
        /\ call' = [op |-> "get_layout_details", arguments |-> arguments]
        /\ ret' = Return(handle_get_layout_details(selector, layouts, arguments))
    /\ UNCHANGED <<layouts, selector, threads>>

NextServer ==
    \/ LoadSmartSelector
    \/ HandleRecommendLayout \/ HandleAnalyzeContent \/ HandleGetLayoutDetails
    \/ Done

SpecServer == InitServer /\ [][NextServer]_vars

\* a key is written twice among the members of a JSON object
HasRepeatedKey(members) ==
    \E i, j \in 1..Len(members) : i < j /\ members[i][1] = members[j][1]

HasMember(document, key) ==
    /\ document.t = "object"
    /\ \E i \in 1..Len(document.members) : document.members[i][1] = key

Member(document, key) ==
    document.members[CHOOSE i \in 1..Len(document.members) :
                        document.members[i][1] = key][2]

\* the source breaks a uniqueness invariant: a layout id occurs twice, or a
\* placeholder key occurs twice within a layout
ViolatesUniqueness(document) ==
    /\ HasMember(document, "layouts")
    /\ LET entries == Member(document, "layouts").members
       IN  \/ HasRepeatedKey(entries)
           \/ \E i \in 1..Len(entries) : HasRepeatedKey(entries[i][2].placeholders.members)

\* C15: the load is all or nothing: with a source that is missing, unreadable
\* or that breaks a uniqueness invariant the constructor raises and no catalog
\* is there for any call.
C15_LoadAllOrNothing ==
    (IsCall("SmartLayoutSelector")
        /\ (call.document.t \in {"missing", "unreadable"} \/ ViolatesUniqueness(call.document)))
    => (ret.kind = "raise" /\ selector # "constructed")

\* C16: a document with a layouts mapping and no content_to_layout_mapping
\* section loads, to the catalog the document with the section loads to.
C16_MappingSectionOptional ==
    (IsCall("SmartLayoutSelector")
        /\ HasMember(call.document, "layouts")
        /\ ~HasMember(call.document, "content_to_layout_mapping"))
    => /\ ret.kind = "return"
       /\ selector = "constructed"
       /\ layouts = __init__(JsonObjectOf(Append(call.document.members,
                        <<"content_to_layout_mapping", EmptyMapping>>))).layouts

ToolNames == {"recommend_layout", "analyze_content", "get_layout_details"}

\* C17: the server answers no tool call without a loaded catalog: when the load
\* failed the startup is aborted.
C17_NoServiceWithoutCatalog ==
    (call.op \in ToolNames /\ ret.kind = "return") => selector = "constructed"

(***************************************************************************)
(* The placeholder summary on its own: _summarize_placeholders applied to  *)
(* any layout, and the per-column line the server shows of it.             *)
(***************************************************************************)
MaxPlaceholders == 3

PlaceholderKeys == {"placeholder_" \o ToString(i) : i \in 1..MaxPlaceholders}

PlaceholderSpecs ==
    {[type |-> "title", required |-> TRUE],
     [type |-> "chart", column |-> "left", required |-> TRUE],
     [type |-> "body", column |-> "right", required |-> FALSE],
     [type |-> "body", column |-> "left"],
     [semantic_name |-> "Footer"]}

\* layouts with any placeholders of PlaceholderSpecs under the keys, and a
\* layout that has no placeholders member
SummaryLayouts ==
    UNION {{[semantic_name |-> "Layout", placeholders |-> ps] : ps \in [keys -> PlaceholderSpecs]} :
                keys \in SUBSET PlaceholderKeys}
    \cup {[semantic_name |-> "Bare"]}

\* handle_get_layout_details, lines 350-352: the entries of the By Column line
\* (none when the line is not written)
ByColumnShown(by_column) ==
    IF \E col \in DOMAIN by_column : col # "none"
    THEN {ToString(by_column[col]) \o " " \o col : col \in DOMAIN by_column \ {"none"}}
    ELSE {}

InitSummary ==
    /\ layouts = <<>>
    /\ call = Idle
    /\ ret = NoRet
    /\ selector = "constructed"
    /\ threads = <<>>

SummarizePlaceholders ==
    /\ call = Idle
    /\ \E layout \in SummaryLayouts :
        /\ call' = [op |-> "_summarize_placeholders", layout |-> layout]
        /\ ret' = Return(_summarize_placeholders(layout))
    /\ UNCHANGED <<layouts, selector, threads>>

NextSummary == SummarizePlaceholders \/ Done

SpecSummary == InitSummary /\ [][NextSummary]_vars

\* the sum of the counts of a by_type or by_column mapping
RECURSIVE SumOfCounts(_, _)
SumOfCounts(counts, tags) ==
    IF tags = {} THEN 0
    ELSE LET tag == CHOOSE x \in tags : TRUE
         IN  counts[tag] + SumOfCounts(counts, tags \ {tag})

\* C18: the summary of a layout: total_count is the number of placeholders,
\* required_count the number of them whose required flag is true, the counts
\* by type sum to total_count with a placeholder without type under unknown,
\* the counts by column sum to total_count with a placeholder without column
\* under none, and the By Column line shows every tag with its count but none.
C18_PlaceholderSummary ==
    IsCall("_summarize_placeholders") =>
        LET placeholders == Get(call.layout, "placeholders", <<>>)
            keys == DOMAIN placeholders
            summary == ret.value
            untyped == {k \in keys : "type" \notin DOMAIN placeholders[k]}
            untagged == {k \in keys : "column" \notin DOMAIN placeholders[k]}
        IN  /\ summary.total_count = Cardinality(keys)
            /\ summary.required_count
                = Cardinality({k \in keys : "required" \in DOMAIN placeholders[k]
                                            /\ placeholders[k].required})
            /\ 0 <= summary.required_count
            /\ summary.required_count <= summary.total_count
            /\ SumOfCounts(summary.by_type, DOMAIN summary.by_type) = summary.total_count
            /\ untyped # {} => summary.by_type["unknown"] = Cardinality(untyped)
            /\ SumOfCounts(summary.by_column, DOMAIN summary.by_column) = summary.total_count
            /\ untagged # {} => summary.by_column["none"] = Cardinality(untagged)
            /\ \A col \in DOMAIN summary.by_column :
                LET shown == ToString(summary.by_column[col]) \o " " \o col
                IN  shown \in ByColumnShown(summary.by_column) <=> col # "none"

\* a layout with placeholders with and without column and type, one required
C18_Witness ==
    /\ IsCall("_summarize_placeholders")
    /\ ret.value.total_count = MaxPlaceholders
    /\ ret.value.required_count = 1
    /\ DOMAIN ret.value.by_column = {"none", "left"}
    /\ ret.value.by_column["none"] = 2
    /\ "unknown" \in DOMAIN ret.value.by_type

\* the text that follows "<layout name>: " in a reason starts with label
HasLabel(reason, layout_info, label) ==
    LET start == Len(Get(layout_info, "semantic_name", "Unknown Layout")) + 3
    IN  SubSeq(reason, start, start + Len(label) - 1) = label

\* scores of analyses the analyzer gives, against layouts of the catalog
ScoreExamples ==
    <<_calculate_layout_score(analyze_content(Str("One. Two. Three.")), Layout17),
      _calculate_layout_score(analyze_content(WordBundleOf[20]), Layout20),
      _calculate_layout_score(
        analyze_content(Dict(<< <<"left", Str("Revenue grew 15% to $45M")>> >>)), Layout17)>>

\* C19: in every recommendation the label of the reason is decided by the score
\* alone (Perfect match from 3, Good fit from 2, Suitable from 1, else Partial
\* match) and the score is the one the scoring engine computed, not clamped to
\* the 0-5 scale: scores below zero, of zero and above 5 occur.
C19_LabelAndUnclampedScore ==
    /\ ScoreExamples[1] < 0 /\ ScoreExamples[2] = 0 /\ ScoreExamples[3] > 5
    /\ IsCall("recommend_layouts") =>
        \A analysis \in {AnalysisOf[call.content]} :
            \A k \in 1..Len(ret.value) :
                LET layout_info == Lookup(layouts, ret.value[k][1])
                    score == ret.value[k][2]
                    reason == ret.value[k][3]
                IN  /\ score = _calculate_layout_score(analysis, layout_info)
                    /\ HasLabel(reason, layout_info, "Perfect match") <=> score >= 3
                    /\ HasLabel(reason, layout_info, "Good fit") <=> (2 <= score /\ score < 3)
                    /\ HasLabel(reason, layout_info, "Suitable") <=> (1 <= score /\ score < 2)
                    /\ HasLabel(reason, layout_info, "Partial match") <=> score < 1

\* one call returns a score above 5 labelled Perfect match, a score of 3 and a
\* score of 1
C19_Witness ==
    /\ IsCall("recommend_layouts")
    /\ Len(ret.value) = 3
    /\ ret.value[1][2] > 5
    /\ HasLabel(ret.value[1][3], Lookup(layouts, ret.value[1][1]), "Perfect match")
    /\ ret.value[2][2] = 3
    /\ ret.value[3][2] = 1

\* a call returns a score below zero, labelled Partial match
C19_NegativeScoreReturned ==
    /\ IsCall("recommend_layouts")
    /\ \E k \in 1..Len(ret.value) :
        /\ ret.value[k][2] < 0
        /\ HasLabel(ret.value[k][3], Lookup(layouts, ret.value[k][1]), "Partial match")

\* an analysis the analyzer can give: its content_type is the one its other
\* fields determine
Producible(a) ==
    a.content_type
        = _determine_content_type(a.has_charts, a.has_tables, a.text_density, a.structure)

\* C20: against a layout with a chart placeholder, a bundle with no chart
\* content scores strictly less than any chart-rich bundle.
C20_ChartRichScoresHigher ==
    (IsCall("_calculate_layout_score")
        /\ ChartCount(call.layout_info) >= 1
        /\ ~call.analysis.has_charts
        /\ Producible(call.analysis))
    => \A rich \in {a \in Analyses : a.has_charts /\ Producible(a)} :
            ret.value < _calculate_layout_score(rich, call.layout_info)

\* C20 (amended): against a layout with a chart placeholder, an analysis
\* without charts scores less than the analysis that differs from it only by
\* has_charts: by 3, the penalty against the bonus, or by 4 when the second
\* chart bonus fires as well.
C20_ChartTermsDiffer ==
    (IsCall("_calculate_layout_score")
        /\ ChartCount(call.layout_info) >= 1
        /\ ~call.analysis.has_charts)
    => LET rich == [call.analysis EXCEPT !.has_charts = TRUE]
           more == _calculate_layout_score(rich, call.layout_info)
       IN  /\ ret.value < more
           /\ more - ret.value
                = IF call.analysis.data_points > 5 /\ ChartCount(call.layout_info) >= 2
                  THEN 4 ELSE 3

\* the penalty alone fires: -1, against 3 for the same analysis with charts
C20_Witness ==
    /\ IsCall("_calculate_layout_score")
    /\ ChartCount(call.layout_info) >= 2
    /\ ~call.analysis.has_charts
    /\ call.analysis.data_points > 5
    /\ Producible(call.analysis)
    /\ ret.value = -1
    /\ _calculate_layout_score([call.analysis EXCEPT !.has_charts = TRUE], call.layout_info) = 3

(***************************************************************************)
(* C21: the end-to-end example of the financial bundle.                    *)
(***************************************************************************)
FinancialBundle ==
    Dict(<< <<"title", Str("Q3 Results")>>,
            <<"revenue_chart", Str("Revenue grew 15% to $45M")>>,
            <<"cost_analysis", Str("Costs down 8%")>> >>)

FinancialAnalysisAsClaimed(analysis) ==
    /\ analysis.has_charts
    /\ ~analysis.has_tables
    /\ analysis.data_points >= 2
    /\ analysis.content_type = "data_visualization"

FirstIsDataVisualization(recommendations) ==
    /\ Len(recommendations) >= 1
    /\ recommendations[1][1] \in LayoutIds(layouts)
    /\ Get(Lookup(layouts, recommendations[1][1]), "category", "") = "data_visualization"

\* a catalog with a data_visualization layout that has a chart placeholder and
\* with no layout of another category that has both a chart placeholder and a
\* single_column structure tag
ChartLayoutLeads(catalog) ==
    /\ \E i \in 1..Len(catalog) :
            /\ Get(catalog[i][2], "category", "") = "data_visualization"
            /\ ChartCount(catalog[i][2]) >= 1
    /\ \A i \in 1..Len(catalog) :
            \/ Get(catalog[i][2], "category", "") = "data_visualization"
            \/ ChartCount(catalog[i][2]) = 0
            \/ ~Contains(Get(catalog[i][2], "structure", ""), "single_column")

\* C21 (as claimed): for the bundle {title: 'Q3 Results', revenue_chart:
\* 'Revenue grew 15% to $45M', cost_analysis: 'Costs down 8%'}, analyze returns
\* has_charts, no has_tables, data_points >= 2 and content_type
\* data_visualization, and the first entry returned by recommend (top_n >= 1)
\* is a layout whose category is data_visualization, whatever the catalog.
C21_FirstIsChartLayoutInAnyCatalog ==
    /\ (IsCall("analyze_content") /\ call.content = FinancialBundle)
        => FinancialAnalysisAsClaimed(ret.value)
    /\ (IsCall("recommend_layouts") /\ call.content = FinancialBundle /\ call.top_n >= 1)
        => FirstIsDataVisualization(ret.value)

\* C21 (amended): the analysis of the bundle is as claimed, and the first entry
\* returned by recommend (top_n >= 1) is a layout whose category is
\* data_visualization when the catalog has a data_visualization layout with a
\* chart placeholder and no layout of another category with both a chart
\* placeholder and a single_column structure tag.
C21_FinancialExample ==
    /\ (IsCall("analyze_content") /\ call.content = FinancialBundle)
        => FinancialAnalysisAsClaimed(ret.value)
    /\ (IsCall("recommend_layouts") /\ call.content = FinancialBundle /\ call.top_n >= 1
            /\ ChartLayoutLeads(layouts))
        => FirstIsDataVisualization(ret.value)

\* the dual-chart dashboard comes first, with 3 + 2 + 1 = 6
C21_Witness ==
    /\ IsCall("recommend_layouts")
    /\ call.content = FinancialBundle
    /\ call.top_n >= 1
    /\ ChartLayoutLeads(layouts)
    /\ ret.value[1][1] = "17"
    /\ ret.value[1][2] = 6
    /\ AnalysisOf[FinancialBundle].data_points = 4
    /\ AnalysisOf[FinancialBundle].structure = "single_topic"

(***************************************************************************)
(* C22: the key metrics.                                                   *)
(***************************************************************************)
\* the places of k in s
Occurrences(s, k) == {i \in 1..(Len(s) - Len(k) + 1) : SubSeq(s, i, i + Len(k) - 1) = k}

VocabularyPos(term) == CHOOSE i \in 1..Len(metric_keywords) : metric_keywords[i] = term

\* C22: key_metrics of every analysis holds exactly the terms of the fixed
\* vocabulary that occur in the lower-cased corpus, each once however often it
\* occurs, in vocabulary order.
C22_KeyMetrics ==
    IsCall("analyze_content")
    => \A corpus \in {Lower(ExtractText(call.content))} :
        LET key_metrics == ret.value.key_metrics
            n == Len(key_metrics)
        IN  /\ {key_metrics[i] : i \in 1..n}
                = {metric_keywords[j] : j \in {j \in 1..Len(metric_keywords) :
                                                 Occurrences(corpus, metric_keywords[j]) # {}}}
            /\ \A i, j \in 1..n : i < j => key_metrics[i] # key_metrics[j]
            /\ \A i, j \in 1..n :
                    i < j => VocabularyPos(key_metrics[i]) < VocabularyPos(key_metrics[j])

\* 'cost' comes before 'revenue' in the corpus and after it in the result, and
\* 'revenue' occurs twice in the corpus and once in the result
C22_Witness ==
    /\ IsCall("analyze_content")
    /\ ret.value.key_metrics = <<"revenue", "cost">>
    /\ \E corpus \in {Lower(ExtractText(call.content))} :
        /\ Cardinality(Occurrences(corpus, "revenue")) >= 2
        /\ \A i \in Occurrences(corpus, "revenue") :
                \E j \in Occurrences(corpus, "cost") : j < i

(***************************************************************************)
(* C23: the order and the number of the steps of one recommend_layouts.    *)
(***************************************************************************)
\* the first n entries of the catalog, each scored once on the analysis, in
\* catalog order
ScoredPrefix(recs, analysis, n) ==
    /\ Len(recs) = n
    /\ n <= Len(layouts)
    /\ \A j \in 1..n :
        /\ recs[j][1] = layouts[j][1]
        /\ recs[j][2] = _calculate_layout_score(analysis, layouts[j][2])

SameEntries(recs, others) ==
    /\ Len(recs) = Len(others)
    /\ {recs[j] : j \in 1..Len(recs)} = {others[j] : j \in 1..Len(others)}

\* what a frame of recommend_layouts holds at each of its steps
RecommendFrameInOrder(f) ==
    /\ f.pc = "score" =>
        /\ f.analysis = analyze_content(f.content)
        /\ ScoredPrefix(f.recommendations, f.analysis, f.i - 1)
    /\ f.pc = "slice" =>
        /\ Len(f.recommendations) = Len(layouts)
        /\ {f.recommendations[j][1] : j \in 1..Len(layouts)} = LayoutIds(layouts)
        /\ NonIncreasing(f.recommendations)

\* what one step of a caller does to its frame of recommend_layouts
RecommendStepInOrder(f, g) ==
    /\ (g.pc = "score" /\ f.pc # "score") =>
        /\ f.pc = "idle"
        /\ g.i = 1
        /\ g.recommendations = <<>>
    /\ (g.pc = "score" /\ f.pc = "score") =>
        /\ g.analysis = f.analysis
        /\ g.i = f.i + 1
        /\ SubSeq(g.recommendations, 1, Len(f.recommendations)) = f.recommendations
    /\ (g.pc = "slice") =>
        /\ f.pc = "score"
        /\ ScoredPrefix(f.recommendations, f.analysis, Len(layouts))
        /\ SameEntries(g.recommendations, f.recommendations)
        /\ g.analysis = f.analysis
    /\ (f.pc = "slice") =>
        /\ g.pc = "returned"
        /\ g.op = "recommend_layouts"
        /\ Len(g.value) <= Len(f.recommendations)
        /\ g.value = SubSeq(f.recommendations, 1, Len(g.value))
    /\ (f.pc = "score") => g.pc \in {"score", "slice"}

\* C23: within one recommend call the analyzer runs once, before any scoring;
\* the scoring runs once for each catalog entry, in catalog order, none skipped
\* and none scored twice, on that one analysis; the sort happens only after
\* every entry has been scored; the truncation to top_n happens last.
C23_RecommendSteps ==
    /\ [](\A t \in Callers : RecommendFrameInOrder(threads[t]))
    /\ [][\A t \in Callers :
            threads'[t] # threads[t] => RecommendStepInOrder(threads[t], threads'[t])]_vars

\* a caller has scored the three entries and sorted them: the sort moved the
\* first entry of the catalog, while the other caller is still scoring
C23_Witness ==
    \E t, u \in Callers :
        /\ threads[t].pc = "slice"
        /\ Len(threads[t].recommendations) = 3
        /\ threads[t].recommendations[1][1] # layouts[1][1]
        /\ threads[t].recommendations[1][2] > threads[t].recommendations[3][2]
        /\ threads[u].pc = "score"
        /\ threads[u].i = 2

(***************************************************************************)
(* C24: the structure decided by the text.                                 *)
(***************************************************************************)
\* the number of segments of the corpus that a period terminates
TerminatedSegments(s) == Cardinality({i \in 1..Len(s) : Char(s, i) = "."})

\* C24: when neither a hint key nor a sequence value decides the structure, the
\* text decides it: comparison if it contains versus, compared to, vs or while;
\* else list if it contains first, second, third or finally; else narrative if
\* it has more than 3 sentence-terminated segments; else single_topic. A corpus
\* of exactly three period-terminated sentences without those words is
\* single_topic, one of four is narrative.
C24_TextDecidesStructure ==
    (IsCall("analyze_content")
        /\ ~HasComparisonKey(call.content) /\ ~HasListValue(call.content))
    => \A corpus \in {ExtractText(call.content)} :
        \A low \in {Lower(corpus)} :
            ret.value.structure
                = IF AnyIn(<<"versus", "compared to", "vs", "while">>, low) THEN "comparison"
                  ELSE IF AnyIn(<<"first", "second", "third", "finally">>, low) THEN "list"
                  ELSE IF TerminatedSegments(corpus) > 3 THEN "narrative"
                  ELSE "single_topic"

\* three sentences, each ended by a period, are a narrative
C24_ThreeSentencesNarrative ==
    /\ IsCall("analyze_content")
    /\ call.content = Str("One. Two. Three.")
    /\ ret.value.structure = "narrative"

(***************************************************************************)
(* C25: the rationale and the terms of the score.                          *)
(***************************************************************************)
Labels == {"Perfect match for ", "Good fit for ", "Suitable for ", "Partial match"}

\* the +2.0 chart term and the +2.0 two-column term of the score
ChartTermFired(analysis, layout_info) ==
    analysis.has_charts /\ ChartScore(analysis, layout_info) >= 2

TwoColumnTermFired(analysis, layout_info) ==
    analysis.structure = "comparison" /\ StructureScore(analysis, layout_info) = 2

RationaleFollowsScore(analysis, layout_info, reason) ==
    /\ Contains(reason, "Supports " \o ToString(ChartCount(layout_info)) \o " chart(s)")
        <=> ChartTermFired(analysis, layout_info)
    /\ Contains(reason, "Ideal for comparisons")
        <=> TwoColumnTermFired(analysis, layout_info)
    /\ \E label \in Labels : Contains(reason, label)
    /\ StartsWith(reason, Get(layout_info, "semantic_name", "Unknown Layout") \o ": ")

\* C25: the rationale of every recommendation has the chart-support clause,
\* with the number of chart placeholders, iff the +2.0 chart term of the score
\* fired, and the comparison clause iff the +2.0 two-column term fired; it
\* always has a qualitative label and the display name of the layout.
C25_RationaleFollowsScore ==
    IsCall("recommend_layouts")
    => \A analysis \in {AnalysisOf[call.content]} :
        \A k \in 1..Len(ret.value) :
            RationaleFollowsScore(analysis, Lookup(layouts, ret.value[k][1]), ret.value[k][3])

\* one result with both clauses, one with the chart clause alone, one with
\* neither although its layout has chart placeholders
C25_Witness ==
    /\ IsCall("recommend_layouts")
    /\ Len(ret.value) = 3
    /\ \E k \in 1..3 :
        /\ Contains(ret.value[k][3], "Supports 2 chart(s), Ideal for comparisons")
    /\ \E k \in 1..3 :
        /\ ret.value[k][1] = "20"
        /\ Contains(ret.value[k][3], "Ideal for comparisons")
        /\ ~Contains(ret.value[k][3], "Supports")
    /\ \E k \in 1..3 :
        /\ ret.value[k][1] = "11"
        /\ ~Contains(ret.value[k][3], "Ideal for comparisons")

(***************************************************************************)
(* C26: the range of the score.                                            *)
(***************************************************************************)
LowestScore == 0 - 1
HighestScore == 3 + 2 + 2 + 1 + 1 + 1

\* a text without charts against a chart layout that matches it in nothing, and
\* a chart bundle against the layout that matches it in everything
ScoreExtremes ==
    <<_calculate_layout_score(
        [content_type |-> "general_content", has_charts |-> FALSE, has_tables |-> FALSE,
         has_images |-> FALSE, text_density |-> "medium", structure |-> "list",
         data_points |-> 0, key_metrics |-> <<>>],
        [placeholders |-> PlaceholdersOf(1, 1)]),
      _calculate_layout_score(
        [content_type |-> "data_visualization", has_charts |-> TRUE, has_tables |-> FALSE,
         has_images |-> FALSE, text_density |-> "low", structure |-> "single_topic",
         data_points |-> 6, key_metrics |-> <<>>],
        [semantic_name |-> "Layout", category |-> "data_visualization",
         subcategory |-> "general", structure |-> "single_column",
         use_cases |-> <<"data visualization", "narrative">>,
         placeholders |-> PlaceholdersOf(2, 1)])>>

\* C26: every score is a whole number from -1 to 10, for every analysis and
\* every layout descriptor; -1 and 10 are both attained, and -1 only when the
\* chart penalty is the one row that fires.
C26_ScoreRange ==
    /\ ScoreExtremes = <<LowestScore, HighestScore>>
    /\ IsCall("_calculate_layout_score") =>
        /\ ret.value \in Int
        /\ LowestScore <= ret.value /\ ret.value <= HighestScore
        /\ ret.value = LowestScore
            => Firing(Rows(call.analysis, call.layout_info)) = {8}

\* an analysis the analyzer gives gets every bonus
C26_Witness ==
    /\ IsCall("_calculate_layout_score")
    /\ Producible(call.analysis)
    /\ ret.value = HighestScore
    /\ Firing(Rows(call.analysis, call.layout_info)) = {1, 5, 6, 7, 10, 11}

(***************************************************************************)
(* C27: the comparison content type and the table vocabulary.              *)
(***************************************************************************)
\* no key and no value of the bundle decides the structure: the text does
TextDecides(content) == ~HasComparisonKey(content) /\ ~HasListValue(content)

\* C27: analyze returns content_type comparison only for a mapping with a key
\* among left, right, before, after, vs or for a corpus that contains 'while';
\* when 'versus', 'vs' or 'compared to' in the text decides the structure, the
\* structure is comparison, has_tables is true and content_type is data_table
\* or dashboard.
C27_ComparisonTypeNeedsKeyOrWhile ==
    IsCall("analyze_content")
    => \A low \in {Lower(ExtractText(call.content))} :
        /\ ret.value.content_type = "comparison"
            => (HasComparisonKey(call.content) \/ Contains(low, "while"))
        /\ (TextDecides(call.content) /\ AnyIn(<<"versus", "vs", "compared to">>, low))
            => /\ ret.value.structure = "comparison"
               /\ ret.value.has_tables
               /\ ret.value.content_type \in {"data_table", "dashboard"}

\* 'compared to', put together from two values of a mapping, decides the
\* structure, and its 'compare' makes the content a data table
C27_Witness ==
    /\ IsCall("analyze_content")
    /\ IsDict(call.content)
    /\ TextDecides(call.content)
    /\ \E low \in {Lower(ExtractText(call.content))} :
        /\ Contains(low, "compared to")
        /\ ~Contains(low, "vs")
        /\ ~Contains(low, "while")
    /\ ret.value.structure = "comparison"
    /\ ret.value.content_type = "data_table"

\* 'while' alone in the text: the content type is comparison
C27_WhileGivesComparison ==
    /\ IsCall("analyze_content")
    /\ TextDecides(call.content)
    /\ ret.value.content_type = "comparison"

(***************************************************************************)
(* C28: the result of recommend_layouts is a prefix of the full ranking.   *)
(***************************************************************************)
\* C28: for every bundle and top_n >= 1, the layout ids returned by recommend
\* are pairwise distinct and belong to the catalog, each returned score and
\* reason are the ones computed for that layout from the analysis of the
\* bundle, and no catalog entry left out of the result scores strictly more
\* than a returned entry.
C28_PrefixOfRanking ==
    (IsCall("recommend_layouts") /\ call.top_n >= 1)
    => \A analysis \in {AnalysisOf[call.content]} :
        LET n == Len(ret.value)
            returned == {ret.value[k][1] : k \in 1..n}
        IN  /\ \A j, k \in 1..n : j < k => ret.value[j][1] # ret.value[k][1]
            /\ returned \subseteq LayoutIds(layouts)
            /\ \A k \in 1..n :
                LET layout_info == Lookup(layouts, ret.value[k][1])
                    score == _calculate_layout_score(analysis, layout_info)
                IN  /\ ret.value[k][2] = score
                    /\ ret.value[k][3]
                        = _generate_recommendation_reason(analysis, layout_info, score)
            /\ \A i \in 1..Len(layouts) :
                layouts[i][1] \notin returned
                => \A k \in 1..n :
                    _calculate_layout_score(analysis, layouts[i][2]) <= ret.value[k][2]

\* one entry is returned of three, and the two left out score strictly less
C28_Witness ==
    /\ IsCall("recommend_layouts")
    /\ call.top_n = 1
    /\ Len(layouts) = 3
    /\ Len(ret.value) = 1
    /\ \A i \in 1..3 :
        layouts[i][1] # ret.value[1][1]
        => _calculate_layout_score(AnalysisOf[call.content], layouts[i][2]) < ret.value[1][2]

(***************************************************************************)
(* The MCP server of mcp_server.py.  Here layouts is the list self.layouts *)
(* of ExtendicarePPTServer, loaded from the template analysis, and call    *)
(* holds the call in progress with the locals of its frame.                *)
(***************************************************************************)
MaxLines == 3
MaxTemplateLayouts == 3

\* the entries of template_analysis.json, as analyze_template.py writes them
TemplateLayout(index) ==
    [index |-> index, name |-> "Layout " \o ToString(index), placeholders |-> <<>>]

TemplateAnalyses == {[i \in 1..n |-> TemplateLayout(i - 1)] : n \in 0..MaxTemplateLayouts}

\* list[index]: a negative index counts from the end
ListGetItem(list, index) ==
    IF 0 <= index /\ index < Len(list) THEN Return(list[index + 1])
    ELSE IF 0 - Len(list) <= index /\ index < 0 THEN Return(list[Len(list) + index + 1])
    ELSE Raise([type |-> "IndexError", message |-> "list index out of range"])

OutOfRange(template_layouts, layout_index) ==
    Raise([type |-> "ValueError",
           message |-> "Layout index " \o ToString(layout_index) \o " out of range (0-"
                        \o ToString(Len(template_layouts) - 1) \o ")"])

\* get_layout_details, were the index tested against the length alone
GetLayoutDetailsBelowLength(template_layouts, layout_index) ==
    IF layout_index < Len(template_layouts)
    THEN ListGetItem(template_layouts, layout_index)
    ELSE OutOfRange(template_layouts, layout_index)

\* ExtendicarePPTServer.get_layout_details
ServerGetLayoutDetails(template_layouts, layout_index) ==
    IF 0 <= layout_index /\ layout_index < Len(template_layouts)
    THEN ListGetItem(template_layouts, layout_index)
    ELSE OutOfRange(template_layouts, layout_index)

\* str(e) of the exceptions raised here; str of a KeyError is the repr of the key
ExceptionStr(exception) ==
    IF exception.type = "KeyError" THEN "'" \o exception.message \o "'"
    ELSE exception.message

\* call_tool, for get_layout_details and for a name that is no tool
call_tool(template_layouts, name, arguments) ==
    LET outcome ==
            IF name = "get_layout_details"
            THEN IF "layout_index" \notin DOMAIN arguments
                 THEN Raise([type |-> "KeyError", message |-> "layout_index"])
                 ELSE ServerGetLayoutDetails(template_layouts, arguments.layout_index)
            ELSE Raise([type |-> "ValueError", message |-> "Unknown tool: " \o name])
    IN  IF outcome.kind = "raise"
        THEN Raise([type |-> "RuntimeError",
                    message |-> "Error executing " \o name \o ": "
                                  \o ExceptionStr(outcome.exception)])
        ELSE outcome

\* if current_slide: None and the empty dict are false
Truthy(x) == x # None /\ DOMAIN x # {}

\* line[n:].strip()
TextAfter(line, n) == Strip(SubSeq(line, n + 1, Len(line)))

\* one turn of the loop of _parse_markdown, were a title line to drop the
\* slide that is open
ParseLineTitleDropsOpen(slides, current_slide, line) ==
    IF StartsWith(line, "# ")
    THEN [slides |-> slides,
          current_slide |-> [layout_index |-> 0, content |-> [title |-> TextAfter(line, 2)]]]
    ELSE IF StartsWith(line, "## ")
    THEN [slides |-> slides,
          current_slide |->
            IF Truthy(current_slide)
            THEN [current_slide EXCEPT !.content = SetItem(@, "subtitle", TextAfter(line, 3))]
            ELSE [layout_index |-> 5, content |-> [title |-> TextAfter(line, 3)]]]
    ELSE IF StartsWith(line, "- ")
    THEN LET open == IF ~Truthy(current_slide)
                     THEN [layout_index |-> 5, content |-> <<>>] ELSE current_slide
             bullets == Get(open.content, "bullets", <<>>)
         IN  [slides |-> slides,
              current_slide |->
                [open EXCEPT !.content = SetItem(@, "bullets",
                                                 Append(bullets, TextAfter(line, 2)))]]
    ELSE [slides |-> slides, current_slide |-> current_slide]

\* one turn of the loop of _parse_markdown, lines 204-227
ParseLine(slides, current_slide, line) ==
    IF StartsWith(line, "# ")
    THEN [slides |-> IF Truthy(current_slide) THEN Append(slides, current_slide) ELSE slides,
          current_slide |-> [layout_index |-> 0, content |-> [title |-> TextAfter(line, 2)]]]
    ELSE IF StartsWith(line, "## ")
    THEN [slides |-> slides,
          current_slide |->
            IF Truthy(current_slide)
            THEN [current_slide EXCEPT !.content = SetItem(@, "subtitle", TextAfter(line, 3))]
            ELSE [layout_index |-> 5, content |-> [title |-> TextAfter(line, 3)]]]
    ELSE IF StartsWith(line, "- ")
    THEN LET open == IF ~Truthy(current_slide)
                     THEN [layout_index |-> 5, content |-> <<>>] ELSE current_slide
             bullets == Get(open.content, "bullets", <<>>)
         IN  [slides |-> slides,
              current_slide |->
                [open EXCEPT !.content = SetItem(@, "bullets",
                                                 Append(bullets, TextAfter(line, 2)))]]
    ELSE [slides |-> slides, current_slide |-> current_slide]

\* the lines a markdown text is written with
LinePool == {"# A", "# ", "## S", "## T", "- x", "- y", " - z", "note", ""}

Markdowns ==
    {Join(ls, "\n") : ls \in UNION {[1..n -> LinePool] : n \in 0..MaxLines}}

InitMarkdown ==
    /\ layouts = <<>>
    /\ call = Idle
    /\ ret = NoRet
    /\ selector = "none"
    /\ threads = <<>>

\* _parse_markdown(markdown), lines 199-202
ParseMarkdownBegin ==
    /\ call = Idle
    /\ \E markdown \in Markdowns :
        call' = [op |-> "_parse_markdown", markdown |-> markdown, pc |-> "loop",
                 lines |-> Split(Strip(markdown), "\n"), i |-> 1,
                 slides |-> <<>>, current_slide |-> None]
    /\ ret' = NoRet
    /\ UNCHANGED <<layouts, selector, threads>>

\* the loop of line 203 takes the next line
ParseMarkdownLine ==
    /\ call # Idle
    /\ call.pc = "loop"
    /\ call.i <= Len(call.lines)
    /\ \E after \in {ParseLine(call.slides, call.current_slide, call.lines[call.i])} :
        call' = [call EXCEPT !.slides = after.slides,
                             !.current_slide = after.current_slide,
                             !.i = @ + 1]
    /\ UNCHANGED <<layouts, ret, selector, threads>>

\* lines 229-232, once the loop is over
ParseMarkdownReturn ==
    /\ call # Idle
    /\ call.pc = "loop"
    /\ call.i > Len(call.lines)
    /\ \E slides \in {IF Truthy(call.current_slide)
                      THEN Append(call.slides, call.current_slide) ELSE call.slides} :
        /\ call' = [call EXCEPT !.pc = "returned", !.slides = slides]
        /\ ret' = Return(slides)
    /\ UNCHANGED <<layouts, selector, threads>>

\* the caller takes the slides
ParseMarkdownDone ==
    /\ call # Idle
    /\ call.pc = "returned"
    /\ call' = Idle
    /\ ret' = NoRet
    /\ UNCHANGED <<layouts, selector, threads>>

NextMarkdown ==
    ParseMarkdownBegin \/ ParseMarkdownLine \/ ParseMarkdownReturn \/ ParseMarkdownDone

SpecMarkdown == InitMarkdown /\ [][NextMarkdown]_vars

(***************************************************************************)
(* C29: _parse_markdown as a state machine over one open slide.            *)
(***************************************************************************)
IsTitleLine(line) == StartsWith(line, "# ")
IsSubtitleLine(line) == StartsWith(line, "## ")
IsBulletLine(line) == StartsWith(line, "- ")

IsParsing == call # Idle /\ call.op = "_parse_markdown"

\* the lines the loop has taken so far
Processed == SubSeq(call.lines, 1, call.i - 1)

\* the slides closed so far, and the open one after them
SlidesSoFar ==
    IF call.pc = "loop" /\ call.current_slide # None
    THEN Append(call.slides, call.current_slide) ELSE call.slides

TitleLines(ls) == {k \in 1..Len(ls) : IsTitleLine(ls[k])}

\* a '## ' or a '- ' line comes before the first '# ' line
OpensBeforeFirstTitle(ls) ==
    \E k \in 1..Len(ls) :
        /\ IsSubtitleLine(ls[k]) \/ IsBulletLine(ls[k])
        /\ \A j \in 1..(k - 1) : ~IsTitleLine(ls[j])

RECURSIVE BulletsOf(_)
BulletsOf(slides) ==
    IF Len(slides) = 0 THEN <<>>
    ELSE Get(slides[1].content, "bullets", <<>>) \o BulletsOf(Tail(slides))

RECURSIVE TitlesOf(_)
TitlesOf(slides) ==
    IF Len(slides) = 0 THEN <<>>
    ELSE (IF slides[1].layout_index = 0 THEN <<slides[1].content.title>> ELSE <<>>)
         \o TitlesOf(Tail(slides))

\* the texts of the lines that start with prefix, in the order of the lines
RECURSIVE TextsOf(_, _)
TextsOf(ls, prefix) ==
    IF Len(ls) = 0 THEN <<>>
    ELSE (IF StartsWith(ls[1], prefix)
          THEN <<Strip(SubSeq(ls[1], Len(prefix) + 1, Len(ls[1])))>> ELSE <<>>)
         \o TextsOf(Tail(ls), prefix)

\* what the slides hold after the lines taken so far
SlidesFollowLines ==
    IsParsing =>
        /\ Len(SlidesSoFar)
            = Cardinality(TitleLines(Processed))
              + (IF OpensBeforeFirstTitle(Processed) THEN 1 ELSE 0)
        /\ \A k \in 1..Len(SlidesSoFar) :
            SlidesSoFar[k].layout_index
                = IF k = 1 /\ OpensBeforeFirstTitle(Processed) THEN 5 ELSE 0
        /\ TitlesOf(SlidesSoFar) = TextsOf(Processed, "# ")
        /\ BulletsOf(SlidesSoFar) = TextsOf(Processed, "- ")
        /\ call.pc = "returned" => (ret.value = call.slides /\ call.i = Len(call.lines) + 1)

\* what the line taken does to the open slide
LineStepsSlide(line, slides, open, slides_after, open_after) ==
    /\ IsTitleLine(line) =>
        /\ slides_after = (IF open = None THEN slides ELSE Append(slides, open))
        /\ open_after.layout_index = 0
        /\ DOMAIN open_after.content = {"title"}
    /\ ~IsTitleLine(line) => slides_after = slides
    /\ (IsSubtitleLine(line) /\ open = None) =>
        /\ open_after.layout_index = 5
        /\ DOMAIN open_after.content = {"title"}
    /\ (IsSubtitleLine(line) /\ open # None) =>
        /\ open_after.layout_index = open.layout_index
        /\ open_after.content.subtitle = Strip(SubSeq(line, 4, Len(line)))
        /\ \A key \in DOMAIN open.content \ {"subtitle"} :
                open_after.content[key] = open.content[key]
    /\ (IsBulletLine(line) /\ open = None) =>
        /\ open_after.layout_index = 5
        /\ DOMAIN open_after.content = {"bullets"}
        /\ Len(open_after.content.bullets) = 1
    /\ (IsBulletLine(line) /\ open # None) =>
        /\ open_after.layout_index = open.layout_index
        /\ Len(open_after.content.bullets) = Len(Get(open.content, "bullets", <<>>)) + 1
        /\ \A key \in DOMAIN open.content \ {"bullets"} :
                open_after.content[key] = open.content[key]
    /\ (~IsTitleLine(line) /\ ~IsSubtitleLine(line) /\ ~IsBulletLine(line)) =>
        open_after = open

\* C29: _parse_markdown takes the lines in order over one open slide: a '# '
\* line closes the open slide, if any, and opens one with layout_index 0; a
\* '## ' or '- ' line opens a slide with layout_index 5 only when none is open,
\* else '## ' overwrites the subtitle of the open slide and '- ' appends to its
\* bullets.  So the slides are as many as the '# ' lines, plus one if a '## '
\* or '- ' line comes before the first '# ' line; slides and bullets keep the
\* order of the lines, and the text of every '- ' line is in exactly one slide.
C29_OneOpenSlide ==
    /\ []SlidesFollowLines
    /\ [][(IsParsing /\ call.pc = "loop" /\ call' # Idle /\ call'.pc = "loop")
            => /\ call'.i = call.i + 1
               /\ call'.lines = call.lines
               /\ LineStepsSlide(call.lines[call.i], call.slides, call.current_slide,
                                 call'.slides, call'.current_slide)]_vars

\* a bullet opens the first slide, a title closes it and opens the second,
\* which takes the next bullet
C29_Witness ==
    /\ IsParsing
    /\ call.pc = "returned"
    /\ call.lines = <<"- x", "# A", "- y">>
    /\ ret.value = <<[layout_index |-> 5, content |-> [bullets |-> <<"x">>]],
                     [layout_index |-> 0, content |-> [title |-> "A", bullets |-> <<"y">>]]>>

\* the second '## ' line overwrites the subtitle of the first
C29_SubtitleOverwritten ==
    /\ IsParsing
    /\ call.pc = "returned"
    /\ call.lines = <<"# A", "## S", "## T">>
    /\ ret.value = <<[layout_index |-> 0, content |-> [title |-> "A", subtitle |-> "T"]]>>

(***************************************************************************)
(* The tool calls of the MCP server, on its list of layouts.               *)
(***************************************************************************)
LayoutIndexes == (0 - MaxTemplateLayouts - 2)..(MaxTemplateLayouts + 1)

ToolArguments == {<<>>} \cup {[layout_index |-> i] : i \in LayoutIndexes}

InitMcp ==
    /\ layouts \in TemplateAnalyses
    /\ call = Idle
    /\ ret = NoRet
    /\ selector = "none"
    /\ threads = <<>>

\* await server.get_layout_details(layout_index), as the test calls it
ServerGetLayoutDetailsCall ==
    /\ call = Idle
    /\ \E layout_index \in LayoutIndexes :
        /\ call' = [op |-> "ExtendicarePPTServer.get_layout_details",
                    layout_index |-> layout_index]
        /\ ret' = ServerGetLayoutDetails(layouts, layout_index)
    /\ UNCHANGED <<layouts, selector, threads>>

\* call_tool(name, arguments), lines 333-357
CallTool ==
    /\ call = Idle
    /\ \E name \in {"get_layout_details", "get_layout"}, arguments \in ToolArguments :
        /\ call' = [op |-> "call_tool", name |-> name, arguments |-> arguments]
        /\ ret' = call_tool(layouts, name, arguments)
    /\ UNCHANGED <<layouts, selector, threads>>

\* the caller takes the result or the exception
McpDone ==
    /\ call # Idle
    /\ call' = Idle
    /\ ret' = NoRet
    /\ UNCHANGED <<layouts, selector, threads>>

NextMcp == ServerGetLayoutDetailsCall \/ CallTool \/ McpDone

SpecMcp == InitMcp /\ [][NextMcp]_vars

(***************************************************************************)
(* C30: get_layout_details of the MCP server and its index.                *)
(***************************************************************************)
InRange(i) == 0 <= i /\ i < Len(layouts)

\* C30: get_layout_details(i) of the MCP server returns the i-th loaded layout
\* when 0 <= i < number of layouts, and else raises an out-of-range error and
\* returns no layout: a negative index never counts from the end.  Through
\* call_tool the failure is an error that names the tool, never a result.
C30_IndexInRangeOrError ==
    /\ IsCall("ExtendicarePPTServer.get_layout_details") =>
        IF InRange(call.layout_index)
        THEN ret = Return(layouts[call.layout_index + 1])
        ELSE /\ ret.kind = "raise"
             /\ ret.exception.type = "ValueError"
             /\ Contains(ret.exception.message, "out of range")
    /\ (IsCall("call_tool") /\ call.name = "get_layout_details"
            /\ "layout_index" \in DOMAIN call.arguments) =>
        IF InRange(call.arguments.layout_index)
        THEN ret = Return(layouts[call.arguments.layout_index + 1])
        ELSE /\ ret.kind = "raise"
             /\ Contains(ret.exception.message, "get_layout_details")
             /\ Contains(ret.exception.message, "out of range")

\* the index -1 with three layouts loaded: an error, not the last layout
C30_Witness ==
    /\ IsCall("call_tool")
    /\ Len(layouts) = 3
    /\ call.name = "get_layout_details"
    /\ call.arguments = [layout_index |-> 0 - 1]
    /\ ret = Raise([type |-> "RuntimeError",
                    message |-> "Error executing get_layout_details: "
                                \o "Layout index -1 out of range (0-2)"])

====
